---------------------------- MODULE Spec2Model ----------------------------
(***************************************************************************)
(* Ripyl: the streaming edge detectors of ripyl/cython/decode.pyx          *)
(* (find_edges, find_multi_edges and their inner loops), the sample        *)
(* stream stages of ripyl/cython/sigproc.pyx (edges_to_sample_stream,      *)
(* capacify), OnlineStats of ripyl/cython/util/stats.pyx, the StreamRecord *)
(* status roll-up, the logic-level detection and the UART decoder.         *)
(*                                                                         *)
(* Numbers.  Amplitudes, logic levels and times are integers; arithmetic   *)
(* is exact (the rounding of C doubles is not modelled).  The hysteresis   *)
(* fraction is carried in tenths (hysteresis = 4 stands for 0.4), and the  *)
(* three thresholds of find_edges are carried multiplied by 20, so that    *)
(*   hyst_top = span * (0.5 + hysteresis / 2) + logic[0]                   *)
(* becomes span * (10 + hysteresis) + 20 * logic[0], compared with         *)
(* 20 * sample.  Python sequences are 0-based, TLA+ sequences 1-based:     *)
(* chunk[0] of the code is samples[1] here.                                *)
(***************************************************************************)
EXTENDS Integers, Sequences, FiniteSets, TLC

VARIABLES
    fn,              \* which generator function this run is a call of
    logic,           \* find_edges argument: <<low, high>>
    hysteresis,      \* find_edges argument, in tenths
    hyst_thresholds, \* find_multi_edges argument: 2N thresholds
    pc,              \* where the generator is suspended
    requested,       \* a next() of the consumer is being served
    raised,          \* the exception that has left the generator, or "none"
    state,           \* cdef int state
    prev_stable,     \* cdef int prev_stable
    edges,           \* the list returned by the inner loop, not yet yielded
    out,             \* the elements yielded so far, <<time, state>> each
    init_yields,     \* history: positions of out yielded by `yield initial_state`
    chunks,          \* history: the SampleChunks pulled from the sample stream
    edge_src,        \* the edge stream given to edges_to_sample_stream
    pulled,          \* history: how many of its edges next(edges) has delivered
    es_args,         \* edges_to_sample_stream arguments
    es,              \* edges_to_sample_stream locals
    cap_args,        \* capacify arguments
    cap,             \* capacify locals: vc, q and the array behind `chunk`
    sample_out,      \* the SampleChunks yielded so far by a sigproc generator
    inst,            \* two detector instances pulled in turn: what each has done
    cells,           \* their detector state: state and prev_stable of each
    lv,              \* logic-level detection in front of an edge detector
    u,               \* the UART decoder: configuration, edge stream, position, frames
    stats,           \* an OnlineStats object: c, m, s, and what it was given
    status,          \* StreamRecord.status of each record created
    subrecords       \* StreamRecord.subrecords of each record created

edgeVars == <<fn, logic, hysteresis, hyst_thresholds, pc, requested, raised, state,
              prev_stable, edges, out, init_yields, chunks>>
sigVars == <<edge_src, pulled, es_args, es, cap_args, cap, sample_out>>
recVars == <<status, subrecords>>
duoVars == <<inst, cells>>
lvVars == <<lv>>
uartVars == <<u>>
statVars == <<stats>>
vars == <<edgeVars, sigVars, duoVars, lvVars, uartVars, statVars, recVars>>

\* what a generator of decode.pyx leaves alone, and what a StreamRecord does
exceptStage == <<duoVars, lvVars, uartVars, statVars, recVars>>
exceptRec == <<edgeVars, sigVars, duoVars, lvVars, uartVars, statVars>>
exceptDuo == <<edgeVars, sigVars, lvVars, uartVars, statVars, recVars>>
exceptLv == <<edgeVars, sigVars, duoVars, uartVars, statVars, recVars>>
exceptUart == <<edgeVars, sigVars, duoVars, lvVars, statVars>>
exceptStat == <<edgeVars, sigVars, duoVars, lvVars, uartVars, recVars>>

----------------------------------------------------------------------------
(* Bounds of the model *)

\* total number of samples a sample stream delivers
MaxSamples == 3

\* number of StreamRecords created
MaxRecords == 3

\* amplitudes a sample can take
Levels == 0 .. 4
\* sample periods a chunk can carry (positive)
Periods == {1, 2}
\* start time of the first chunk
StartTimes == {3}
\* (low, high) logic pairs given to find_edges
LogicPairs == {<<0, 4>>, <<1, 4>>}
\* hysteresis values given to find_edges, in tenths
Hysts == {0, 5, 9}
\* every hysteresis value of the range [0, 0.9], in tenths
HystRange == 0 .. 9
\* threshold lists given to find_multi_edges: N = 1, 2, 3, 4
ThresholdLists == {<<1, 2>>, <<0, 1, 2, 3>>, <<0, 0, 1, 2, 3, 3>>,
                   <<0, 0, 1, 1, 2, 2, 3, 3>>}

\* threshold lists find_multi_edges rejects: an odd number, and more than 16
BadThresholdLists == {<<1>>, <<0, 1, 2>>,
                      <<0, 0, 0, 0, 0, 0, 1, 1, 1, 1, 1, 1, 2, 2, 2, 2, 2, 2>>}

\* number of edges an edge stream given to edges_to_sample_stream holds
MaxEdges == 3
\* times its edges carry
EdgeTimes == 0 .. 4
\* logic_states, sample_period, end_extension and chunk_size given to it
LogicStates == {<<0, 1>>, <<-1, 1>>}
EsPeriods == {1, 2}
\* (end_extension is <<>> for None, else <<x>>)
EndExtensions == {<<>>, <<1>>, <<2>>}
ChunkSizes == {1, 2, 3}

\* capacitance, resistance and iterations given to capacify
CapArgs == {[capacitance |-> 1, resistance |-> 2, iterations |-> 1],
            [capacitance |-> 2, resistance |-> 1, iterations |-> 2]}

\* two instances pulled in turn: samples each stream delivers, their
\* amplitudes, and the arguments of the calls
DuoSamples == 2
DuoLevels == {0, 2, 4}
DuoLogic == <<0, 4>>
DuoHysteresis == 5
DuoThresholds == <<0, 1, 2, 3>>

\* logic-level detection: the sample budget (max_samples; 20000 by default)
LevelBudget == 2

\* OnlineStats: values accumulated between two resets, resets, data values
MaxAccumulated == 4
MaxResets == 1
StatValues == {-1, 0, 2}
Ddofs == {0, 1}

\* UART: words of a message, and the configurations decoded with
MaxWords == 2
UartBits == {2}
UartParities == {"none", "even", "odd"}
StopBitCounts == {1, 2}
UartIdleLevels == {1, 0}
\* length in bit cells of a dropout
DropoutLengths == {1, 2}

\* StreamStatus codes a record is given: Ok, Warning, Error
StatusCodes == {0, 100, 200}

----------------------------------------------------------------------------
(* decode.pyx: state codes *)

ES_START == 1000
ZONE_1_L1 == 2
ZONE_2_T == 1
ZONE_3_L0 == 0

\* find_multi_edges: cdef double h_t[16], sizeof(h_t) // sizeof(double)
H_T_SIZE == 16

\* StreamStatus.Error, the base of the error tier
STATUS_ERROR == 200

\* edges the baud rate detection of the UART decoder asks for
MIN_BAUD_EDGES == 50

----------------------------------------------------------------------------
(* Helpers over sequences *)

Last(s) == s[Len(s)]

\* the samples of a sequence of chunks, in order
RECURSIVE Concat(_)
Concat(cs) == IF cs = <<>> THEN <<>> ELSE Head(cs).samples \o Concat(Tail(cs))

RECURSIVE SumLen(_)
SumLen(cs) == IF cs = <<>> THEN 0 ELSE Len(Head(cs).samples) + SumLen(Tail(cs))

\* a SampleChunk: start_time, sample_period, samples
SampleChunk(samples, start_time, sample_period) ==
    [samples |-> samples, start_time |-> start_time, sample_period |-> sample_period]

\* all sequences over S of length n
RECURSIVE SeqsOfLen(_, _)
SeqsOfLen(S, n) ==
    IF n = 0 THEN {<<>>}
    ELSE {Append(s, x) : s \in SeqsOfLen(S, n - 1), x \in S}

----------------------------------------------------------------------------
(* find_edges: thresholds (times 20) *)

Span(lg) == lg[2] - lg[1]
Thresh(lg) == 10 * (lg[2] + lg[1])
\* (variant: the hysteresis is not halved)
HystTopFull(lg, hyst) == Span(lg) * (10 + 2 * hyst) + 20 * lg[1]
HystTop(lg, hyst) == Span(lg) * (10 + hyst) + 20 * lg[1]
HystBot(lg, hyst) == Span(lg) * (10 - hyst) + 20 * lg[1]

\* (variant: the upper comparison admits equality)
CyZoneInclusive(sample, hyst_top, hyst_bot) ==
    IF 20 * sample >= hyst_top THEN ZONE_1_L1
    ELSE IF 20 * sample > hyst_bot THEN ZONE_2_T
    ELSE ZONE_3_L0

\* (variant: the lower comparison admits equality)
CyZoneLowerInclusive(sample, hyst_top, hyst_bot) ==
    IF 20 * sample > hyst_top THEN ZONE_1_L1
    ELSE IF 20 * sample >= hyst_bot THEN ZONE_2_T
    ELSE ZONE_3_L0

\* _cy_find_edges: zone of one sample
CyZone(sample, hyst_top, hyst_bot) ==
    IF 20 * sample > hyst_top THEN ZONE_1_L1
    ELSE IF 20 * sample > hyst_bot THEN ZONE_2_T
    ELSE ZONE_3_L0

\* (variant: leaving the transition band for a stable zone always yields an
\* edge, prev_stable is not consulted)
CyTransitionNoDebounce(a, zone) ==
    LET zone_is_stable == zone = ZONE_1_L1 \/ zone = ZONE_3_L0
    IN IF a.state = ES_START
       THEN IF zone_is_stable THEN [a EXCEPT !.state = zone] ELSE a
       ELSE IF a.state = ZONE_1_L1 \/ a.state = ZONE_3_L0
       THEN IF zone_is_stable
            THEN IF zone # a.state
                 THEN [a EXCEPT !.state = zone,
                                !.edges = Append(@, <<a.t, zone \div 2>>)]
                 ELSE a
            ELSE [a EXCEPT !.prev_stable = a.state, !.state = zone]
       ELSE IF a.state = ZONE_2_T
       THEN IF zone_is_stable
            THEN [a EXCEPT !.state = zone,
                           !.edges = Append(@, <<a.t, zone \div 2>>)]
            ELSE [a EXCEPT !.state = zone]
       ELSE a

\* _cy_find_edges: the state machine step for one sample of zone `zone`.
\* a = [edges, state, prev_stable, t]
CyTransition(a, zone) ==
    LET zone_is_stable == zone = ZONE_1_L1 \/ zone = ZONE_3_L0
    IN IF a.state = ES_START
       THEN IF zone_is_stable THEN [a EXCEPT !.state = zone] ELSE a
       ELSE IF a.state = ZONE_1_L1 \/ a.state = ZONE_3_L0
       THEN IF zone_is_stable
            THEN IF zone # a.state
                 THEN [a EXCEPT !.state = zone,
                                !.edges = Append(@, <<a.t, zone \div 2>>)]
                 ELSE a
            ELSE [a EXCEPT !.prev_stable = a.state, !.state = zone]
       ELSE IF a.state = ZONE_2_T
       THEN IF zone_is_stable /\ zone # a.prev_stable
            THEN [a EXCEPT !.state = zone,
                           !.edges = Append(@, <<a.t, zone \div 2>>)]
            ELSE [a EXCEPT !.state = zone]
       ELSE a

\* (variant: the time is not advanced)
CyAdvanceStuck(a, sample_period) == a
\* (variant: the time advances by one unit whatever the chunk's period)
CyAdvanceUnit(a, sample_period) == [a EXCEPT !.t = @ + 1]

\* _cy_find_edges: t += sample_period
CyAdvance(a, sample_period) == [a EXCEPT !.t = @ + sample_period]

\* _cy_find_edges: the body of the loop over the chunk, for one sample
CyBody(a, sample, sample_period, hyst_top, hyst_bot) ==
    CyAdvance(CyTransition(a, CyZone(sample, hyst_top, hyst_bot)), sample_period)

RECURSIVE CyLoop(_, _, _, _, _, _)
CyLoop(chunk, i, a, sample_period, hyst_top, hyst_bot) ==
    IF i > Len(chunk) THEN a
    ELSE CyLoop(chunk, i + 1, CyBody(a, chunk[i], sample_period, hyst_top, hyst_bot),
                sample_period, hyst_top, hyst_bot)

\* _cy_find_edges: returns the edges of the chunk and the state it leaves in
\* p_state and p_prev_stable
CyFindEdges(chunk, t, sample_period, hyst_top, hyst_bot, p_state, p_prev_stable) ==
    CyLoop(chunk, 1,
           [edges |-> <<>>, state |-> p_state, prev_stable |-> p_prev_stable, t |-> t],
           sample_period, hyst_top, hyst_bot)

\* (variant: the stream is taken to start low)
InitialStateLow(c, lg) == <<c.start_time, 0>>

\* find_edges: initial_state and prev_stable, from the first sample of a chunk
InitialState(c, lg) == <<c.start_time, IF 20 * c.samples[1] > Thresh(lg) THEN 1 ELSE 0>>
InitialPrevStable(c, lg) == IF 20 * c.samples[1] > Thresh(lg) THEN ZONE_1_L1 ELSE ZONE_3_L0

----------------------------------------------------------------------------
(* The sample stream: chunks are non-empty and time-contiguous *)

Consumed == SumLen(chunks)

NextStartTimes ==
    IF chunks = <<>> THEN StartTimes
    ELSE {Last(chunks).start_time + Len(Last(chunks).samples) * Last(chunks).sample_period}

NextChunks ==
    {SampleChunk(s, st, p) :
        s \in UNION {SeqsOfLen(Levels, n) : n \in 1 .. (MaxSamples - Consumed)},
        st \in NextStartTimes, p \in Periods}

\* the loop variable sc
sc == Last(chunks)

----------------------------------------------------------------------------
(* Generators.  Calling a generator function runs none of its body: the    *)
(* body runs, from where it was suspended, when the consumer calls next(). *)

\* (variant: a plain function, whose body runs as soon as it is called)
RunningEager == TRUE

\* the body of the generator is running (a next() is being served)
Running == requested

\* next(gen) by the consumer of a generator that has not finished
Request ==
    /\ fn # "none"
    /\ ~requested
    /\ pc \notin {"done", "raised"}
    /\ requested' = TRUE
    /\ UNCHANGED <<fn, logic, hysteresis, hyst_thresholds, pc, raised, state, prev_stable,
                   edges, out, init_yields, chunks, sigVars, exceptStage>>

----------------------------------------------------------------------------
(* find_edges, the generator *)

\* the first next(): the body runs up to `for sc in sample_chunks`
FindEdgesStart ==
    /\ fn = "find_edges"
    /\ pc = "created"
    /\ Running
    /\ pc' = "loop"
    /\ UNCHANGED <<fn, logic, hysteresis, hyst_thresholds, requested, raised, state,
                   prev_stable, edges, out, init_yields, chunks, sigVars, exceptStage>>

\* `for sc in sample_chunks` delivers a chunk.  In ES_START the generator
\* yields initial_state and is suspended there; otherwise it goes on to the
\* inner loop.
FindEdgesInner(c) ==
    LET r == CyFindEdges(c.samples, c.start_time, c.sample_period,
                         HystTop(logic, hysteresis), HystBot(logic, hysteresis),
                         state, prev_stable)
    IN /\ state' = r.state
       /\ prev_stable' = r.prev_stable
       /\ edges' = r.edges
       /\ pc' = IF r.edges = <<>> THEN "loop" ELSE "edges"

FindEdgesNextChunk ==
    /\ fn = "find_edges"
    /\ pc = "loop"
    /\ Running
    /\ \E c \in NextChunks :
        /\ chunks' = Append(chunks, c)
        /\ IF state = ES_START
           THEN /\ out' = Append(out, InitialState(c, logic))
                /\ init_yields' = init_yields \cup {Len(out) + 1}
                /\ prev_stable' = InitialPrevStable(c, logic)
                /\ pc' = "initial"
                /\ requested' = FALSE
                /\ UNCHANGED <<state, edges>>
           ELSE /\ FindEdgesInner(c)
                /\ UNCHANGED <<out, init_yields, requested>>
    /\ UNCHANGED <<fn, logic, hysteresis, hyst_thresholds, raised, sigVars, exceptStage>>

\* resumed after `yield initial_state`: the inner loop runs over the chunk
FindEdgesAfterInitial ==
    /\ fn = "find_edges"
    /\ pc = "initial"
    /\ Running
    /\ FindEdgesInner(sc)
    /\ UNCHANGED <<fn, logic, hysteresis, hyst_thresholds, requested, raised, out,
                   init_yields, chunks, sigVars, exceptStage>>

\* `for e in edges: yield e`
FindEdgesYield ==
    /\ fn = "find_edges"
    /\ pc = "edges"
    /\ Running
    /\ out' = Append(out, Head(edges))
    /\ edges' = Tail(edges)
    /\ pc' = IF Tail(edges) = <<>> THEN "loop" ELSE "edges"
    /\ requested' = FALSE
    /\ UNCHANGED <<fn, logic, hysteresis, hyst_thresholds, raised, state, prev_stable,
                   init_yields, chunks, sigVars, exceptStage>>

\* the sample stream is exhausted: the generator returns
FindEdgesStop ==
    /\ fn = "find_edges"
    /\ pc = "loop"
    /\ Running
    /\ pc' = "done"
    /\ requested' = FALSE
    /\ UNCHANGED <<fn, logic, hysteresis, hyst_thresholds, raised, state, prev_stable,
                   edges, out, init_yields, chunks, sigVars, exceptStage>>

----------------------------------------------------------------------------
(* find_multi_edges *)

\* center_thresholds, times 2: the centre of each hysteresis pair
CenterThresholds(ht) == [i \in 1 .. (Len(ht) \div 2) |-> ht[2 * i - 1] + ht[2 * i]]

\* (variant: the offset is taken per threshold pair, not per two pairs)
ZoneOffsetHalf(h_t_len) == h_t_len \div 2

\* zone_offset: offset between zone codings and the final logic state coding
ZoneOffset(h_t_len) == h_t_len \div 4

\* (variant: a sample on a centre is taken as above it)
CenterIxStrict(sample, center_thresholds) ==
    LET hit == {i \in 1 .. Len(center_thresholds) : 2 * sample < center_thresholds[i]}
    IN IF hit = {} THEN Len(center_thresholds)
       ELSE (CHOOSE i \in hit : \A j \in hit : i <= j) - 1

\* center_ix: the first centre the first sample does not exceed, else their number
CenterIx(sample, center_thresholds) ==
    LET hit == {i \in 1 .. Len(center_thresholds) : 2 * sample <= center_thresholds[i]}
    IN IF hit = {} THEN Len(center_thresholds)
       ELSE (CHOOSE i \in hit : \A j \in hit : i <= j) - 1

MultiInitialState(c, ht) ==
    <<c.start_time, CenterIx(c.samples[1], CenterThresholds(ht)) - ZoneOffset(Len(ht))>>

\* (variant: a sample on a threshold is taken as above it)
CyMultiZoneStrict(sample, ht) ==
    LET hit == {j \in 1 .. Len(ht) : sample < ht[j]}
    IN IF hit = {} THEN Len(ht)
       ELSE (CHOOSE j \in hit : \A k \in hit : j <= k) - 1

\* _cy_find_multi_edges: zone of one sample, the first threshold it does not exceed
CyMultiZone(sample, ht) ==
    LET hit == {j \in 1 .. Len(ht) : sample <= ht[j]}
    IN IF hit = {} THEN Len(ht)
       ELSE (CHOOSE j \in hit : \A k \in hit : j <= k) - 1

\* _cy_find_multi_edges: the state machine step for one sample of zone `zone`
CyMultiTransition(a, zone, zone_offset) ==
    LET zone_is_stable == zone % 2 = 0
    IN IF a.state = ES_START
       THEN IF zone_is_stable THEN [a EXCEPT !.state = zone] ELSE a
       ELSE IF a.state % 2 = 0
       THEN IF zone_is_stable
            THEN IF zone # a.state
                 THEN [a EXCEPT !.state = zone,
                                !.edges = Append(@, <<a.t, zone \div 2 - zone_offset>>)]
                 ELSE a
            ELSE [a EXCEPT !.prev_stable = a.state, !.state = zone]
       ELSE IF zone_is_stable /\ zone # a.prev_stable
            THEN [a EXCEPT !.state = zone,
                           !.edges = Append(@, <<a.t, zone \div 2 - zone_offset>>)]
            ELSE [a EXCEPT !.state = zone]

\* _cy_find_multi_edges: the body of the loop over the chunk, for one sample
CyMultiBody(a, sample, sample_period, ht) ==
    CyAdvance(CyMultiTransition(a, CyMultiZone(sample, ht), ZoneOffset(Len(ht))),
              sample_period)

RECURSIVE CyMultiLoop(_, _, _, _, _)
CyMultiLoop(chunk, i, a, sample_period, ht) ==
    IF i > Len(chunk) THEN a
    ELSE CyMultiLoop(chunk, i + 1, CyMultiBody(a, chunk[i], sample_period, ht),
                     sample_period, ht)

CyFindMultiEdges(chunk, t, sample_period, ht, p_state, p_prev_stable) ==
    CyMultiLoop(chunk, 1,
                [edges |-> <<>>, state |-> p_state, prev_stable |-> p_prev_stable, t |-> t],
                sample_period, ht)

\* (variant: the length is not checked against the size of h_t)
ThresholdsAcceptedEven(ht) == Len(ht) % 2 = 0

\* the two assertions on hyst_thresholds
ThresholdsAccepted(ht) == Len(ht) % 2 = 0 /\ Len(ht) <= H_T_SIZE

\* the first next(): the assertions, then the body up to `for sc in samples`
FindMultiEdgesStart ==
    /\ fn = "find_multi_edges"
    /\ pc = "created"
    /\ Running
    /\ IF ThresholdsAccepted(hyst_thresholds)
       THEN /\ pc' = "loop"
            /\ UNCHANGED <<requested, raised>>
       ELSE /\ pc' = "raised"
            /\ raised' = "AssertionError"
            /\ requested' = FALSE
    /\ UNCHANGED <<fn, logic, hysteresis, hyst_thresholds, state, prev_stable, edges,
                   out, init_yields, chunks, sigVars, exceptStage>>

FindMultiEdgesInner(c) ==
    LET r == CyFindMultiEdges(c.samples, c.start_time, c.sample_period,
                              hyst_thresholds, state, prev_stable)
    IN /\ state' = r.state
       /\ prev_stable' = r.prev_stable
       /\ edges' = r.edges
       /\ pc' = IF r.edges = <<>> THEN "loop" ELSE "edges"

FindMultiEdgesNextChunk ==
    /\ fn = "find_multi_edges"
    /\ pc = "loop"
    /\ Running
    /\ \E c \in NextChunks :
        /\ chunks' = Append(chunks, c)
        /\ IF state = ES_START
           THEN /\ out' = Append(out, MultiInitialState(c, hyst_thresholds))
                /\ init_yields' = init_yields \cup {Len(out) + 1}
                /\ prev_stable' = MultiInitialState(c, hyst_thresholds)[2]
                /\ pc' = "initial"
                /\ requested' = FALSE
                /\ UNCHANGED <<state, edges>>
           ELSE /\ FindMultiEdgesInner(c)
                /\ UNCHANGED <<out, init_yields, requested>>
    /\ UNCHANGED <<fn, logic, hysteresis, hyst_thresholds, raised, sigVars, exceptStage>>

FindMultiEdgesAfterInitial ==
    /\ fn = "find_multi_edges"
    /\ pc = "initial"
    /\ Running
    /\ FindMultiEdgesInner(sc)
    /\ UNCHANGED <<fn, logic, hysteresis, hyst_thresholds, requested, raised, out,
                   init_yields, chunks, sigVars, exceptStage>>

FindMultiEdgesYield ==
    /\ fn = "find_multi_edges"
    /\ pc = "edges"
    /\ Running
    /\ out' = Append(out, Head(edges))
    /\ edges' = Tail(edges)
    /\ pc' = IF Tail(edges) = <<>> THEN "loop" ELSE "edges"
    /\ requested' = FALSE
    /\ UNCHANGED <<fn, logic, hysteresis, hyst_thresholds, raised, state, prev_stable,
                   init_yields, chunks, sigVars, exceptStage>>

FindMultiEdgesStop ==
    /\ fn = "find_multi_edges"
    /\ pc = "loop"
    /\ Running
    /\ pc' = "done"
    /\ requested' = FALSE
    /\ UNCHANGED <<fn, logic, hysteresis, hyst_thresholds, raised, state, prev_stable,
                   edges, out, init_yields, chunks, sigVars, exceptStage>>

----------------------------------------------------------------------------
(* sigproc.pyx.  Sample values are fractions <<numerator, denominator>> in *)
(* lowest terms with a positive denominator; arithmetic is exact.          *)

RECURSIVE GCD(_, _)
GCD(a, b) == IF b = 0 THEN a ELSE GCD(b, a % b)

Abs(n) == IF n < 0 THEN 0 - n ELSE n

Frac(n, d) ==
    LET sn == IF d < 0 THEN 0 - n ELSE n
        sd == Abs(d)
        g == GCD(Abs(sn), sd)
    IN <<sn \div g, sd \div g>>

FInt(n) == <<n, 1>>
\* (sums over the least common denominator, products after cancelling, so
\* that intermediate values stay small)
LCM(a, b) == (a \div GCD(a, b)) * b
FAdd(x, y) ==
    LET l == LCM(x[2], y[2])
    IN Frac(x[1] * (l \div x[2]) + y[1] * (l \div y[2]), l)
FSub(x, y) == FAdd(x, <<0 - y[1], y[2]>>)
FMul(x, y) ==
    LET a == Frac(x[1], y[2])
        b == Frac(y[1], x[2])
    IN Frac(a[1] * b[1], a[2] * b[2])
FDiv(x, y) == FMul(x, <<y[2], y[1]>>)

MinOf(q) == CHOOSE x \in {q[i] : i \in 1 .. Len(q)} : \A i \in 1 .. Len(q) : x <= q[i]
MaxOf(q) == CHOOSE x \in {q[i] : i \in 1 .. Len(q)} : \A i \in 1 .. Len(q) : x >= q[i]

\* the arguments of the generators of sigproc.pyx leave the detectors alone
detVars == <<logic, hysteresis, hyst_thresholds, state, prev_stable, edges, out,
             init_yields>>

----------------------------------------------------------------------------
(* edges_to_sample_stream *)

\* (variant: the offset is left out)
CurLevelNoOffset(e_state, logic_states) ==
    Frac(e_state, MaxOf(logic_states) - MinOf(logic_states))

\* offset = -min(logic_states), scale = 1.0 / (max(logic_states) - min(logic_states)),
\* cur_level = (cur_states[1] + offset) * scale
CurLevel(e_state, logic_states) ==
    Frac(e_state - MinOf(logic_states), MaxOf(logic_states) - MinOf(logic_states))

\* both next(edges) of the try block deliver an edge
EnoughEdges(n) == n >= 2

\* (variant: the StopIteration of next(edges) is not caught)
NotEnoughEdgesUncaught == "StopIteration"

\* `except StopIteration: raise StreamError(...)`
NotEnoughEdges == "StreamError"

\* the first next(): the two edges are pulled, or StreamError is raised
EdgesToSampleStreamStart ==
    /\ fn = "edges_to_sample_stream"
    /\ pc = "created"
    /\ Running
    /\ IF EnoughEdges(Len(edge_src))
       THEN /\ pulled' = 2
            /\ es' = [es EXCEPT !.cur_states = edge_src[1], !.next_states = edge_src[2],
                                !.t = edge_src[1][1], !.start_time = edge_src[1][1]]
            /\ pc' = "main"
            /\ UNCHANGED <<requested, raised>>
       ELSE /\ pulled' = Len(edge_src)
            /\ raised' = NotEnoughEdges
            /\ pc' = "raised"
            /\ requested' = FALSE
            /\ UNCHANGED es
    /\ UNCHANGED <<fn, detVars, chunks, edge_src, es_args, cap_args, cap, sample_out,
                   exceptStage>>

\* (variant: the chunk is yielded one sample short of chunk_size)
ChunkFullEarly(chunk_count, chunk_size) == chunk_count >= chunk_size - 1

\* `if chunk_count == c_chunk_size`
ChunkFull(chunk_count, chunk_size) == chunk_count = chunk_size

\* one turn of a `while t < ...` loop: a sample is stored, and the chunk is
\* yielded when it is full
EsFill(level) ==
    LET filled == Append(es.chunk, level)
        t_next == es.t + es_args.sample_period
    IN IF ChunkFull(Len(filled), es_args.chunk_size)
       THEN /\ sample_out' = Append(sample_out,
                                    SampleChunk(filled, es.start_time, es_args.sample_period))
            /\ es' = [es EXCEPT !.chunk = <<>>, !.t = t_next, !.start_time = t_next]
            /\ requested' = FALSE
       ELSE /\ es' = [es EXCEPT !.chunk = filled, !.t = t_next]
            /\ UNCHANGED <<sample_out, requested>>

\* (variant: a sample falling on the next edge still takes the current level)
BeforeNextEdgeInclusive(t_now, next_edge_time) == t_now <= next_edge_time

\* `while t < next_edge_time`
BeforeNextEdge(t_now, next_edge_time) == t_now < next_edge_time

\* the main loop, `while t < next_edge_time`
EdgesToSampleStreamFill ==
    /\ fn = "edges_to_sample_stream"
    /\ pc = "main"
    /\ Running
    /\ BeforeNextEdge(es.t, es.next_states[1])
    /\ EsFill(CurLevel(es.cur_states[2], es_args.logic_states))
    /\ UNCHANGED <<fn, detVars, chunks, pc, raised, edge_src, pulled, es_args, cap_args,
                   cap, exceptStage>>

\* (variant: the extension is taken as a time, not as a duration)
ExtensionEndAbsolute(t_now, end_extension) == end_extension

\* end_time = t + end_extension
ExtensionEnd(t_now, end_extension) == t_now + end_extension

\* (variant: the loop is left before the last edge is pulled)
MoreEdgesButLast(n_pulled, n_edges) == n_pulled < n_edges - 1

\* `next_states = next(edges)` delivers an edge (else StopIteration: break)
MoreEdges(n_pulled, n_edges) == n_pulled < n_edges

\* the main loop, past next_edge_time: the next edge is pulled, or the loop
\* is left when there is none
EdgesToSampleStreamNextEdge ==
    /\ fn = "edges_to_sample_stream"
    /\ pc = "main"
    /\ Running
    /\ ~BeforeNextEdge(es.t, es.next_states[1])
    /\ IF MoreEdges(pulled, Len(edge_src))
       THEN /\ pulled' = pulled + 1
            /\ es' = [es EXCEPT !.cur_states = es.next_states,
                                !.next_states = edge_src[pulled + 1]]
            /\ pc' = "main"
       ELSE /\ es' = [es EXCEPT !.cur_states = es.next_states,
                                !.end_time = IF es_args.end_extension = <<>> THEN @
                                             ELSE ExtensionEnd(es.t, es_args.end_extension[1])]
            /\ pc' = IF es_args.end_extension = <<>> THEN "tail" ELSE "extension"
            /\ UNCHANGED pulled
    /\ UNCHANGED <<fn, detVars, chunks, requested, raised, edge_src, es_args, cap_args,
                   cap, sample_out, exceptStage>>

\* `if end_extension is not None`: `while t < end_time`
EdgesToSampleStreamExtend ==
    /\ fn = "edges_to_sample_stream"
    /\ pc = "extension"
    /\ Running
    /\ IF es.t < es.end_time
       THEN /\ EsFill(CurLevel(es.cur_states[2], es_args.logic_states))
            /\ UNCHANGED pc
       ELSE /\ pc' = "tail"
            /\ UNCHANGED <<es, sample_out, requested>>
    /\ UNCHANGED <<fn, detVars, chunks, raised, edge_src, pulled, es_args, cap_args, cap,
                   exceptStage>>

\* `if chunk_count > 0: yield SampleChunk(chunk[:chunk_count], ...)`, and the
\* end of the body
EdgesToSampleStreamTail ==
    /\ fn = "edges_to_sample_stream"
    /\ pc = "tail"
    /\ Running
    /\ IF Len(es.chunk) > 0
       THEN /\ sample_out' = Append(sample_out,
                                    SampleChunk(es.chunk, es.start_time, es_args.sample_period))
            /\ es' = [es EXCEPT !.chunk = <<>>]
            /\ pc' = "tail"
       ELSE /\ pc' = "done"
            /\ UNCHANGED <<sample_out, es>>
    /\ requested' = FALSE
    /\ UNCHANGED <<fn, detVars, chunks, raised, edge_src, pulled, es_args, cap_args, cap,
                   exceptStage>>

----------------------------------------------------------------------------
(* capacify *)

\* _capacify_inner_loop: a = [vc, q], `iterations` turns for one sample
\* (each turn's value is computed before the next turn is entered)
RECURSIVE CapacifyInnerLoop(_, _, _, _, _, _)
CapacifyInnerLoop(iterations, capacitance, resistance, dt, sample_v, a) ==
    IF iterations = 0 THEN a
    ELSE LET i == FDiv(FSub(sample_v, a.vc), resistance)
             dq == FMul(i, dt)
             q == FAdd(a.q, dq)
             b == [vc |-> FDiv(q, capacitance), q |-> q]
         IN IF b.vc[2] > 0
            THEN CapacifyInnerLoop(iterations - 1, capacitance, resistance, dt, sample_v, b)
            ELSE b

\* `for j in xrange(len(chunk))`: r = [a, filt]
RECURSIVE CapacifyChunk(_, _, _, _)
CapacifyChunk(samples, j, dt, r) ==
    IF j > Len(samples) THEN r
    ELSE LET a == CapacifyInnerLoop(cap_args.iterations, FInt(cap_args.capacitance),
                                    FInt(cap_args.resistance), dt, FInt(samples[j]), r.a)
             nr == [a |-> a, filt |-> Append(r.filt, a.vc)]
         IN IF Len(nr.filt) = j THEN CapacifyChunk(samples, j + 1, dt, nr) ELSE nr

\* `if not vc_init`: vc_init is False at every chunk (it is assigned once,
\* before the loop)
CapacifyInitial(c) ==
    [vc |-> FInt(c.samples[1]), q |-> FMul(FInt(c.samples[1]), FInt(cap_args.capacitance))]

\* `chunk = sc.samples`: the doubles of the input array
Doubles(samples) == [j \in 1 .. Len(samples) |-> FInt(samples[j])]

\* (variant: v_filt is a view of the input array, which takes the filtered values)
ChunkAfterInPlace(chunk, filt) == filt

\* the input array after the loop over the chunk: `filt = np.zeros(...)` is a
\* new array and `v_filt[j] = vc` writes to it; `chunk` is only read
ChunkAfter(chunk, filt) == chunk

\* the first next(): the body runs up to `for sc in samples`
CapacifyStart ==
    /\ fn = "capacify"
    /\ pc = "created"
    /\ Running
    /\ pc' = "loop"
    /\ UNCHANGED <<fn, detVars, chunks, requested, raised, sigVars, exceptStage>>

\* one turn of `for sc in samples`, up to the yield
CapacifyNextChunk ==
    /\ fn = "capacify"
    /\ pc = "loop"
    /\ Running
    /\ \E c \in NextChunks :
        LET dt == Frac(c.sample_period, cap_args.iterations)
            r == CapacifyChunk(c.samples, 1, dt, [a |-> CapacifyInitial(c), filt |-> <<>>])
        IN /\ chunks' = Append(chunks, c)
           /\ cap' = [vc |-> r.a.vc, q |-> r.a.q,
                      chunk |-> ChunkAfter(Doubles(c.samples), r.filt)]
           /\ sample_out' = Append(sample_out,
                                   SampleChunk(r.filt, c.start_time, c.sample_period))
    /\ requested' = FALSE
    /\ UNCHANGED <<fn, detVars, pc, raised, edge_src, pulled, es_args, es, cap_args,
                   exceptStage>>

\* the sample stream is exhausted: the generator returns
CapacifyStop ==
    /\ fn = "capacify"
    /\ pc = "loop"
    /\ Running
    /\ pc' = "done"
    /\ requested' = FALSE
    /\ UNCHANGED <<fn, detVars, chunks, raised, sigVars, exceptStage>>

----------------------------------------------------------------------------
(* StreamRecord: status and subrecords.  Records are numbered in order of  *)
(* creation; subrecords[r] lists the numbers of r's children.              *)

Records == 1 .. Len(status)
Children(r) == {subrecords[r][i] : i \in 1 .. Len(subrecords[r])}

RECURSIVE Descendants(_)
Descendants(r) == Children(r) \cup UNION {Descendants(c) : c \in Children(r)}

HasParent(c) == \E r \in Records : c \in Children(r)

Max(S) == CHOOSE x \in S : \A y \in S : y <= x

\* (variant: only the statuses of the direct subrecords are looked at)
NestedStatusShallow(r) == Max({status[r]} \cup {status[c] : c \in Children(r)})

\* StreamRecord.nested_status(): the largest status of the record and its
\* subrecords, computed from the tree as it is when called
RECURSIVE NestedLoop(_, _)
RECURSIVE nested_status(_)
nested_status(r) == NestedLoop(subrecords[r], status[r])
NestedLoop(srecs, cur_status) ==
    IF srecs = <<>> THEN cur_status
    ELSE LET ns == nested_status(Head(srecs))
         IN NestedLoop(Tail(srecs), IF ns > cur_status THEN ns ELSE cur_status)

\* StreamRecord(status=s): a new record without subrecords
NewRecord ==
    /\ Len(status) < MaxRecords
    /\ \E s \in StatusCodes :
        /\ status' = Append(status, s)
        /\ subrecords' = Append(subrecords, <<>>)
    /\ UNCHANGED exceptRec

\* r.subrecords.append(c): c becomes the last subrecord of r (the parent
\* owns its children: c has no parent yet and r is not below c)
AddSubrecord ==
    /\ \E r \in Records : \E c \in Records :
        /\ r # c
        /\ ~HasParent(c)
        /\ r \notin Descendants(c)
        /\ subrecords' = [subrecords EXCEPT ![r] = Append(@, c)]
    /\ UNCHANGED <<status, exceptRec>>

\* r.status = s, after creation
SetStatus ==
    /\ \E r \in Records : \E s \in StatusCodes :
        /\ status[r] # s
        /\ status' = [status EXCEPT ![r] = s]
    /\ UNCHANGED <<subrecords, exceptRec>>

EdgeIdle ==
    /\ fn = "none"
    /\ logic = <<0, 1>>
    /\ hysteresis = 0
    /\ hyst_thresholds = <<>>
    /\ pc = "done"
    /\ requested = FALSE
    /\ raised = "none"
    /\ state = ES_START
    /\ prev_stable = ZONE_3_L0
    /\ edges = <<>>
    /\ out = <<>>
    /\ init_yields = {}
    /\ chunks = <<>>

\* no generator of sigproc.pyx has been called
SigIdle ==
    /\ edge_src = <<>>
    /\ pulled = 0
    /\ es_args = [sample_period |-> 1, logic_states |-> <<0, 1>>, end_extension |-> <<>>,
                  chunk_size |-> 1]
    /\ es = [cur_states |-> <<0, 0>>, next_states |-> <<0, 0>>, t |-> 0, start_time |-> 0,
             chunk |-> <<>>, end_time |-> 0]
    /\ cap_args = [capacitance |-> 1, resistance |-> 1, iterations |-> 1]
    /\ cap = [vc |-> FInt(0), q |-> FInt(0), chunk |-> <<>>]
    /\ sample_out = <<>>

\* no UART decoder
UartIdleState == u = [state |-> "none"]

\* no OnlineStats object
StatIdle == stats = [c |-> 0]

\* no logic-level detection
LvIdle == lv = [pc |-> "idle"]

\* no pair of instances
DuoIdle ==
    /\ inst = <<>>
    /\ cells = <<>>

RecInit == EdgeIdle /\ SigIdle /\ DuoIdle /\ LvIdle /\ UartIdleState /\ StatIdle /\ status = <<>> /\ subrecords = <<>>

RecNext == NewRecord \/ AddSubrecord \/ SetStatus

RecSpec == RecInit /\ [][RecNext]_vars

----------------------------------------------------------------------------
(* The edge detectors: a call of find_edges or of find_multi_edges *)

RecIdle == status = <<>> /\ subrecords = <<>>

EdgeInit ==
    /\ \/ /\ fn = "find_edges"
          /\ logic \in LogicPairs
          /\ hysteresis \in Hysts
          /\ hyst_thresholds = <<>>
       \/ /\ fn = "find_multi_edges"
          /\ logic = <<0, 1>>
          /\ hysteresis = 0
          /\ hyst_thresholds \in ThresholdLists \cup BadThresholdLists
    /\ pc = "created"
    /\ requested = FALSE
    /\ raised = "none"
    /\ state = ES_START
    /\ prev_stable \in {ZONE_3_L0, ZONE_1_L1}
    /\ edges = <<>>
    /\ out = <<>>
    /\ init_yields = {}
    /\ chunks = <<>>

\* edge streams of at most n edges: strictly increasing times after `after`,
\* states within logic_states
RECURSIVE EdgeStreamsAfter(_, _, _)
EdgeStreamsAfter(ls, n, after) ==
    IF n = 0 THEN {<<>>}
    ELSE {<<>>} \cup
         UNION {{<<<<tm, st>>>> \o rest :
                    st \in MinOf(ls) .. MaxOf(ls), rest \in EdgeStreamsAfter(ls, n - 1, tm)} :
                tm \in {x \in EdgeTimes : x > after}}

EdgeStreams(ls) == EdgeStreamsAfter(ls, MaxEdges, -1)

\* edge streams of at most n edges: non-decreasing times from `from` on, so
\* that several edges can carry one time
RECURSIVE EdgeStreamsFrom(_, _, _)
EdgeStreamsFrom(ls, n, from) ==
    IF n = 0 THEN {<<>>}
    ELSE {<<>>} \cup
         UNION {{<<<<tm, st>>>> \o rest :
                    st \in MinOf(ls) .. MaxOf(ls), rest \in EdgeStreamsFrom(ls, n - 1, tm)} :
                tm \in {x \in EdgeTimes : x >= from}}

\* binary streams with times that can repeat, the first edge at time 0 or 1;
\* streams of more states with increasing times
SteppedEdgeStreams(ls) ==
    IF ls = <<0, 1>>
    THEN {<<>>} \cup
         UNION {{<<<<tm, st>>>> \o rest :
                    st \in 0 .. 1, rest \in EdgeStreamsFrom(ls, MaxEdges - 1, tm)} :
                tm \in {0, 1}}
    ELSE EdgeStreams(ls)

\* the locals of a generator of sigproc.pyx that has not been started
SigFresh ==
    /\ pulled = 0
    /\ es = [cur_states |-> <<0, 0>>, next_states |-> <<0, 0>>, t |-> 0, start_time |-> 0,
             chunk |-> <<>>, end_time |-> 0]
    /\ cap = [vc |-> FInt(0), q |-> FInt(0), chunk |-> <<>>]
    /\ sample_out = <<>>
    /\ logic = <<0, 1>>
    /\ hysteresis = 0
    /\ hyst_thresholds = <<>>
    /\ pc = "created"
    /\ requested = FALSE
    /\ raised = "none"
    /\ state = ES_START
    /\ prev_stable = ZONE_3_L0
    /\ edges = <<>>
    /\ out = <<>>
    /\ init_yields = {}
    /\ chunks = <<>>

\* a call of edges_to_sample_stream or of capacify
SigInit ==
    /\ \/ /\ fn = "edges_to_sample_stream"
          /\ \E ls \in LogicStates :
                /\ edge_src \in EdgeStreams(ls)
                /\ es_args \in [sample_period : EsPeriods, logic_states : {ls},
                                end_extension : EndExtensions, chunk_size : ChunkSizes]
          /\ cap_args = [capacitance |-> 1, resistance |-> 1, iterations |-> 1]
       \/ /\ fn = "capacify"
          /\ edge_src = <<>>
          /\ es_args = [sample_period |-> 1, logic_states |-> <<0, 1>>,
                        end_extension |-> <<>>, chunk_size |-> 1]
          /\ cap_args \in CapArgs
    /\ SigFresh

Init == ((EdgeInit /\ SigIdle) \/ SigInit) /\ DuoIdle /\ LvIdle /\ UartIdleState /\ StatIdle /\ RecIdle

Next ==
    \/ Request
    \/ FindEdgesStart
    \/ FindEdgesNextChunk
    \/ FindEdgesAfterInitial
    \/ FindEdgesYield
    \/ FindEdgesStop
    \/ FindMultiEdgesStart
    \/ FindMultiEdgesNextChunk
    \/ FindMultiEdgesAfterInitial
    \/ FindMultiEdgesYield
    \/ FindMultiEdgesStop
    \/ EdgesToSampleStreamStart
    \/ EdgesToSampleStreamFill
    \/ EdgesToSampleStreamNextEdge
    \/ EdgesToSampleStreamExtend
    \/ EdgesToSampleStreamTail
    \/ CapacifyStart
    \/ CapacifyNextChunk
    \/ CapacifyStop

Spec == Init /\ [][Next]_vars

\* a call of find_edges alone
FindEdgesInit ==
    /\ EdgeInit /\ fn = "find_edges"
    /\ SigIdle /\ DuoIdle /\ LvIdle /\ UartIdleState /\ StatIdle /\ RecIdle

FindEdgesNext ==
    \/ Request
    \/ FindEdgesStart
    \/ FindEdgesNextChunk
    \/ FindEdgesAfterInitial
    \/ FindEdgesYield
    \/ FindEdgesStop

FindEdgesSpec == FindEdgesInit /\ [][FindEdgesNext]_vars

\* a call of edges_to_sample_stream alone
SampleStreamCall(states) ==
    /\ fn = "edges_to_sample_stream"
    /\ \E ls \in states :
          /\ edge_src \in SteppedEdgeStreams(ls)
          /\ es_args \in [sample_period : EsPeriods, logic_states : {ls},
                          end_extension : EndExtensions, chunk_size : ChunkSizes]
    /\ cap_args = [capacitance |-> 1, resistance |-> 1, iterations |-> 1]
    /\ SigFresh
    /\ DuoIdle /\ LvIdle /\ UartIdleState /\ StatIdle /\ RecIdle

SampleStreamInit == SampleStreamCall(LogicStates)

SampleStreamNext ==
    \/ Request
    \/ EdgesToSampleStreamStart
    \/ EdgesToSampleStreamFill
    \/ EdgesToSampleStreamNextEdge
    \/ EdgesToSampleStreamExtend
    \/ EdgesToSampleStreamTail

SampleStreamSpec == SampleStreamInit /\ [][SampleStreamNext]_vars

\* a call of capacify alone
CapacifyInit ==
    /\ SigInit /\ fn = "capacify"
    /\ DuoIdle /\ LvIdle /\ UartIdleState /\ StatIdle /\ RecIdle

CapacifyNext ==
    \/ Request
    \/ CapacifyStart
    \/ CapacifyNextChunk
    \/ CapacifyStop

CapacifySpec == CapacifyInit /\ [][CapacifyNext]_vars

\* the consumer iterates the generator to its end; the edges are binary
SampleStreamLiveSpec ==
    SampleStreamCall({<<0, 1>>}) /\ [][SampleStreamNext]_vars /\ WF_vars(SampleStreamNext)

\* a call of find_multi_edges alone
FindMultiEdgesInit ==
    /\ EdgeInit /\ fn = "find_multi_edges"
    /\ SigIdle /\ DuoIdle /\ LvIdle /\ UartIdleState /\ StatIdle /\ RecIdle

FindMultiEdgesNext ==
    \/ Request
    \/ FindMultiEdgesStart
    \/ FindMultiEdgesNextChunk
    \/ FindMultiEdgesAfterInitial
    \/ FindMultiEdgesYield
    \/ FindMultiEdgesStop

FindMultiEdgesSpec == FindMultiEdgesInit /\ [][FindMultiEdgesNext]_vars

----------------------------------------------------------------------------
(* find_edges as a function of the whole sample stream *)

\* one turn of `for sc in sample_chunks`, g = [state, prev_stable, out]
FindEdgesChunk(g, c, lg, hyst) ==
    LET start == g.state = ES_START
        r == CyFindEdges(c.samples, c.start_time, c.sample_period,
                         HystTop(lg, hyst), HystBot(lg, hyst), g.state,
                         IF start THEN InitialPrevStable(c, lg) ELSE g.prev_stable)
    IN [state |-> r.state, prev_stable |-> r.prev_stable,
        out |-> (IF start THEN Append(g.out, InitialState(c, lg)) ELSE g.out) \o r.edges]

RECURSIVE FindEdgesGen(_, _, _, _)
FindEdgesGen(cs, g, lg, hyst) ==
    IF cs = <<>> THEN g.out
    ELSE FindEdgesGen(Tail(cs), FindEdgesChunk(g, Head(cs), lg, hyst), lg, hyst)

\* list(find_edges(cs, lg, hyst))
FindEdgesRun(cs, lg, hyst) ==
    FindEdgesGen(cs, [state |-> ES_START, prev_stable |-> ZONE_3_L0, out |-> <<>>], lg, hyst)

\* find_multi_edges likewise (for thresholds the assertions accept)
FindMultiEdgesChunk(g, c, ht) ==
    LET start == g.state = ES_START
        r == CyFindMultiEdges(c.samples, c.start_time, c.sample_period, ht, g.state,
                              IF start THEN MultiInitialState(c, ht)[2] ELSE g.prev_stable)
    IN [state |-> r.state, prev_stable |-> r.prev_stable,
        out |-> (IF start THEN Append(g.out, MultiInitialState(c, ht)) ELSE g.out) \o r.edges]

RECURSIVE FindMultiEdgesGen(_, _, _)
FindMultiEdgesGen(cs, g, ht) ==
    IF cs = <<>> THEN g.out
    ELSE FindMultiEdgesGen(Tail(cs), FindMultiEdgesChunk(g, Head(cs), ht), ht)

FindMultiEdgesRun(cs, ht) ==
    FindMultiEdgesGen(cs, [state |-> ES_START, prev_stable |-> ZONE_3_L0, out |-> <<>>], ht)

----------------------------------------------------------------------------
(* Two instances of find_edges, or of find_multi_edges, over different     *)
(* sample streams, pulled in any interleaving.  `state` and `prev_stable`  *)
(* are cdef locals of the generator: each call has its own.                *)

Instances == {1, 2}

\* (variant: state and prev_stable are module-level, shared by all calls)
StateCellShared(i) == 1

\* where instance i keeps state and prev_stable: in its own closure
StateCell(i) == i

DuoNextChunks(i) ==
    {SampleChunk(smp, st, 1) :
        smp \in UNION {SeqsOfLen(DuoLevels, n) : n \in 1 .. (DuoSamples - SumLen(inst[i].chunks))},
        st \in IF inst[i].chunks = <<>> THEN StartTimes
               ELSE {Last(inst[i].chunks).start_time + Len(Last(inst[i].chunks).samples)}}

\* the inner loop of instance i over chunk c
DuoInner(i, c) ==
    LET cell == cells[StateCell(i)]
        r == IF inst[i].fn = "find_edges"
             THEN CyFindEdges(c.samples, c.start_time, c.sample_period,
                              HystTop(DuoLogic, DuoHysteresis), HystBot(DuoLogic, DuoHysteresis),
                              cell.state, cell.prev_stable)
             ELSE CyFindMultiEdges(c.samples, c.start_time, c.sample_period, DuoThresholds,
                                   cell.state, cell.prev_stable)
    IN [cell |-> [state |-> r.state, prev_stable |-> r.prev_stable], edges |-> r.edges,
        pc |-> IF r.edges = <<>> THEN "loop" ELSE "edges"]

DuoInitialState(i, c) ==
    IF inst[i].fn = "find_edges" THEN InitialState(c, DuoLogic)
    ELSE MultiInitialState(c, DuoThresholds)

DuoInitialPrevStable(i, c) ==
    IF inst[i].fn = "find_edges" THEN InitialPrevStable(c, DuoLogic)
    ELSE MultiInitialState(c, DuoThresholds)[2]

\* instance i pulls its next chunk
DuoNextChunk(i) ==
    /\ inst[i].pc = "loop"
    /\ \E c \in DuoNextChunks(i) :
        IF cells[StateCell(i)].state = ES_START
        THEN /\ inst' = [inst EXCEPT ![i].chunks = Append(@, c),
                                     ![i].out = Append(@, DuoInitialState(i, c)),
                                     ![i].pc = "initial"]
             /\ cells' = [cells EXCEPT ![StateCell(i)].prev_stable = DuoInitialPrevStable(i, c)]
        ELSE LET r == DuoInner(i, c)
             IN /\ inst' = [inst EXCEPT ![i].chunks = Append(@, c), ![i].edges = r.edges,
                                        ![i].pc = r.pc]
                /\ cells' = [cells EXCEPT ![StateCell(i)] = r.cell]
    /\ UNCHANGED exceptDuo

\* instance i is resumed after `yield initial_state`
DuoAfterInitial(i) ==
    /\ inst[i].pc = "initial"
    /\ LET r == DuoInner(i, Last(inst[i].chunks))
       IN /\ inst' = [inst EXCEPT ![i].edges = r.edges, ![i].pc = r.pc]
          /\ cells' = [cells EXCEPT ![StateCell(i)] = r.cell]
    /\ UNCHANGED exceptDuo

\* instance i yields its next edge
DuoYield(i) ==
    /\ inst[i].pc = "edges"
    /\ inst' = [inst EXCEPT ![i].out = Append(@, Head(inst[i].edges)),
                            ![i].edges = Tail(@),
                            ![i].pc = IF Tail(inst[i].edges) = <<>> THEN "loop" ELSE "edges"]
    /\ UNCHANGED <<cells, exceptDuo>>

\* the sample stream of instance i is exhausted
DuoStop(i) ==
    /\ inst[i].pc = "loop"
    /\ inst' = [inst EXCEPT ![i].pc = "done"]
    /\ UNCHANGED <<cells, exceptDuo>>

\* the consumer of instance i stops iterating and drops the generator
DuoAbandon(i) ==
    /\ inst[i].pc \in {"loop", "initial", "edges"}
    /\ inst[3 - i].pc # "abandoned"
    /\ inst' = [inst EXCEPT ![i].pc = "abandoned"]
    /\ UNCHANGED <<cells, exceptDuo>>

DuoInit ==
    /\ \E f \in {"find_edges", "find_multi_edges"} :
        inst = [i \in Instances |->
                    [fn |-> f, pc |-> "loop", edges |-> <<>>, out |-> <<>>, chunks |-> <<>>]]
    /\ cells = [i \in Instances |-> [state |-> ES_START, prev_stable |-> ZONE_3_L0]]

DuoSpecInit == DuoInit /\ EdgeIdle /\ SigIdle /\ LvIdle /\ UartIdleState /\ StatIdle /\ RecIdle

DuoNext ==
    \E i \in Instances :
        \/ DuoNextChunk(i)
        \/ DuoAfterInitial(i)
        \/ DuoYield(i)
        \/ DuoStop(i)
        \/ DuoAbandon(i)

DuoSpec == DuoSpecInit /\ [][DuoNext]_vars

\* the elements instance i yields when it is the only one
DuoAlone(i) ==
    IF inst[i].fn = "find_edges" THEN FindEdgesRun(inst[i].chunks, DuoLogic, DuoHysteresis)
    ELSE FindMultiEdgesRun(inst[i].chunks, DuoThresholds)

----------------------------------------------------------------------------
(* Logic-level detection in front of the edge detector.  lv.src is what    *)
(* the sample source has delivered, lv.buffer the chunks held back by the  *)
(* analysis, lv.down what the edge detector downstream has received.       *)

LvNextChunks ==
    {SampleChunk(smp, st, p) :
        smp \in UNION {SeqsOfLen(Levels, n) : n \in 1 .. (MaxSamples - SumLen(lv.src))},
        st \in IF lv.src = <<>> THEN StartTimes
               ELSE {Last(lv.src).start_time + Len(Last(lv.src).samples) * Last(lv.src).sample_period},
        p \in Periods}

\* (variant: every sample of the chunks consumed is analysed)
AnalysedAll(src, budget) == Concat(src)

\* the samples the analysis looks at: the first `budget` of the stream
Analysed(src, budget) ==
    SubSeq(Concat(src), 1, IF SumLen(src) < budget THEN SumLen(src) ELSE budget)

\* the two most populous amplitudes, one on each side of the middle of the
\* range; <<>> when the samples do not take two separate amplitudes
FindLogicLevels(A) ==
    LET amps == {A[i] : i \in 1 .. Len(A)}
        count(a) == Cardinality({i \in 1 .. Len(A) : A[i] = a})
        lo == CHOOSE a \in amps : \A b \in amps : a <= b
        hi == CHOOSE a \in amps : \A b \in amps : a >= b
        lower == {a \in amps : 2 * a <= lo + hi}
        upper == {a \in amps : 2 * a > lo + hi}
        pick(S) == CHOOSE a \in S : \A b \in S :
                        count(a) > count(b) \/ (count(a) = count(b) /\ a <= b)
    IN IF Cardinality(amps) < 2 THEN <<>> ELSE <<pick(lower), pick(upper)>>

\* (variant: the chunks the analysis consumed are not put back)
ReplayDropped(buffer) == <<>>

\* the chunks put back in front of the rest of the stream
Replay(buffer) == buffer

\* the analysis pulls a chunk while it has fewer samples than its budget
LvPull ==
    /\ lv.pc = "analyse"
    /\ SumLen(lv.src) < LevelBudget
    /\ \E c \in LvNextChunks :
        lv' = [lv EXCEPT !.src = Append(@, c), !.buffer = Append(@, c)]
    /\ UNCHANGED exceptLv

\* the budget is reached or the stream has ended: the levels are returned,
\* or AutoLevelError is raised
LvAnalyse ==
    /\ lv.pc = "analyse"
    /\ \E ended \in BOOLEAN :
        /\ ended \/ SumLen(lv.src) >= LevelBudget
        /\ LET found == FindLogicLevels(Analysed(lv.src, LevelBudget))
           IN IF found = <<>>
              THEN lv' = [lv EXCEPT !.pc = "raised", !.raised = "AutoLevelError",
                                    !.ended = ended]
              ELSE lv' = [lv EXCEPT !.pc = "replay", !.levels = found,
                                    !.buffer = Replay(@), !.ended = ended]
    /\ UNCHANGED exceptLv

\* the edge detector is handed the next chunk: a buffered one first
LvReplay ==
    /\ lv.pc = "replay"
    /\ lv.buffer # <<>>
    /\ lv' = [lv EXCEPT !.down = Append(@, Head(lv.buffer)), !.buffer = Tail(@)]
    /\ UNCHANGED exceptLv

\* then the chunks of the rest of the stream, as they come
LvPass ==
    /\ lv.pc = "replay"
    /\ lv.buffer = <<>>
    /\ ~lv.ended
    /\ \E c \in LvNextChunks :
        lv' = [lv EXCEPT !.src = Append(@, c), !.down = Append(@, c)]
    /\ UNCHANGED exceptLv

\* the stream has ended
LvEnd ==
    /\ lv.pc = "replay"
    /\ lv.buffer = <<>>
    /\ lv' = [lv EXCEPT !.pc = "done", !.ended = TRUE]
    /\ UNCHANGED exceptLv

\* logic levels given by the caller (no analysis), or to be detected
LvInit ==
    \/ lv = [pc |-> "replay", auto |-> FALSE, levels |-> <<0, 4>>, src |-> <<>>,
             buffer |-> <<>>, down |-> <<>>, raised |-> "none", ended |-> FALSE]
    \/ lv = [pc |-> "analyse", auto |-> TRUE, levels |-> <<>>, src |-> <<>>,
             buffer |-> <<>>, down |-> <<>>, raised |-> "none", ended |-> FALSE]

LevelInit == LvInit /\ EdgeIdle /\ SigIdle /\ DuoIdle /\ UartIdleState /\ StatIdle /\ RecIdle

LevelNext == LvPull \/ LvAnalyse \/ LvReplay \/ LvPass \/ LvEnd

LevelSpec == LevelInit /\ [][LevelNext]_vars

----------------------------------------------------------------------------
(* The UART decoder over an edge stream.  Times are in half bit periods    *)
(* of the true baud rate: a bit cell is BitPeriod = 2 long and is sampled  *)
(* at its centre.  A logic level is 0 or 1; the bit value of a level is 1  *)
(* (mark) at the idle level and 0 (space) otherwise.                       *)

BitPeriod == 2

RECURSIVE Pow2(_)
Pow2(k) == IF k = 0 THEN 1 ELSE 2 * Pow2(k - 1)

RECURSIVE SumSeq(_)
SumSeq(q) == IF q = <<>> THEN 0 ELSE Head(q) + SumSeq(Tail(q))

\* the bits of a word as they are sent, the least significant first
WordBits(w, n) == [k \in 1 .. n |-> (w \div Pow2(k - 1)) % 2]

\* the parity bit that goes with data bits
ParityOf(bits, parity) == (SumSeq(bits) + (IF parity = "odd" THEN 1 ELSE 0)) % 2

HasParity(cfg) == IF cfg.parity = "none" THEN 0 ELSE 1

\* synthesis: the bit values of one frame, and of a message after one idle cell
FrameBits(w, cfg) ==
    <<0>> \o WordBits(w, cfg.bits)
          \o (IF cfg.parity = "none" THEN <<>>
              ELSE <<ParityOf(WordBits(w, cfg.bits), cfg.parity)>>)
          \o [j \in 1 .. cfg.stop_bits |-> 1]

RECURSIVE MessageBits(_, _)
MessageBits(msg, cfg) ==
    IF msg = <<>> THEN <<>> ELSE FrameBits(Head(msg), cfg) \o MessageBits(Tail(msg), cfg)

\* the level of each bit cell of the synthesized message
MessageLevels(msg, cfg) ==
    LET bits == <<1>> \o MessageBits(msg, cfg)
    IN [i \in 1 .. Len(bits) |-> IF bits[i] = 1 THEN cfg.idle ELSE 1 - cfg.idle]

\* the edge stream of a sequence of cell levels: the initial state, an edge
\* at each change, and a last edge that marks the end of the stream
RECURSIVE Changes(_, _)
Changes(lvls, i) ==
    IF i > Len(lvls) THEN <<>>
    ELSE (IF lvls[i] # lvls[i - 1] THEN <<<<BitPeriod * (i - 1), lvls[i]>>>> ELSE <<>>)
         \o Changes(lvls, i + 1)

EdgesOf(lvls) ==
    <<<<0, lvls[1]>>>> \o Changes(lvls, 2) \o <<<<BitPeriod * Len(lvls), Last(lvls)>>>>

\* a dropout: the signal is held at level lvl over n cells from cell a on
Dropout(lvls, a, n, lvl) ==
    [i \in 1 .. Len(lvls) |-> IF a <= i /\ i < a + n THEN lvl ELSE lvls[i]]

\* the decoder's view of the edge stream
EndTime(eds) == Last(eds)[1]
Exhausted(eds, tm) == tm >= EndTime(eds)
LevelAt(eds, tm) ==
    eds[CHOOSE i \in 1 .. Len(eds) :
            /\ eds[i][1] <= tm
            /\ \A j \in 1 .. Len(eds) : eds[j][1] <= tm => j <= i][2]
BitAt(eds, tm, cfg) == IF LevelAt(eds, tm) = cfg.idle THEN 1 ELSE 0

\* the times of the start-bit edges not before tm: the line leaves idle
StartEdges(eds, tm, cfg) ==
    {eds[i][1] : i \in {j \in 2 .. Len(eds) :
                        /\ eds[j][1] >= tm
                        /\ eds[j][2] # cfg.idle
                        /\ eds[j - 1][2] = cfg.idle}}

\* the sample instant of cell k of a frame (cell 0 is the start bit)
SampleInstant(start, k, bit) == start + bit * k + bit \div 2

\* protocol status codes, above StreamStatus.Error
FramingError == STATUS_ERROR + 1
ParityError == STATUS_ERROR + 2
Incomplete == STATUS_ERROR

\* status of the parity subrecord
ParityStatus(sampled, expected) == IF sampled # expected THEN ParityError ELSE 0

\* (variant: the parity error is set on the frame itself as well)
FrameStatusFromParity(parity_status) == parity_status

\* status of the frame itself when it is complete
FrameStatus(parity_status) == 0

\* (variant: the decoder gives up after a frame in error)
ResyncStateAbort(frame_nested_status) ==
    IF frame_nested_status >= STATUS_ERROR THEN "Done" ELSE "Idle"

\* the state after a complete frame, whatever its status: the next start-bit
\* edge is searched
ResyncState(frame_nested_status) == "Idle"

\* (variant: the most significant bit comes first)
WordValueMsbFirst(bits) ==
    SumSeq([k \in 1 .. Len(bits) |-> bits[k] * Pow2(Len(bits) - k)])

\* the value of the data bits sampled, the least significant first
WordValue(bits) == SumSeq([k \in 1 .. Len(bits) |-> bits[k] * Pow2(k - 1)])

\* (variant: a frame cut short by the end of the stream is not emitted)
EmitsPartialNever(n_sampled) == FALSE

\* a frame in progress at the end of the stream is emitted
EmitsPartial(n_sampled) == TRUE

\* (variant: a handful of edges is enough)
EnoughBaudEdgesFew(n) == n >= 2

EnoughBaudEdges(n) == n >= MIN_BAUD_EDGES

\* the smallest span between two consecutive edges
MinSpan(eds) ==
    LET spans == {eds[i + 1][1] - eds[i][1] : i \in 1 .. (Len(eds) - 1)}
    IN CHOOSE x \in spans : \A y \in spans : x <= y

\* the records of one frame: the frame, then its subrecords in order
\* (sub_status: the status of each subrecord)
EmitRecords(frame_status, sub_status) ==
    LET f == Len(status) + 1
    IN /\ status' = status \o <<frame_status>> \o sub_status
       /\ subrecords' = subrecords \o <<[i \in 1 .. Len(sub_status) |-> f + i]>>
                                   \o [i \in 1 .. Len(sub_status) |-> <<>>]

\* the frame in progress is cut short by the end of the stream: it is the
\* last of the output
UartPartial ==
    IF EmitsPartial(Len(u.bitvals))
    THEN /\ EmitRecords(Incomplete, <<0, 0>>)
         /\ u' = [u EXCEPT !.state = "Done", !.t = EndTime(u.edges), !.bitvals = <<>>,
                           !.frames = Append(@, [rec |-> Len(status) + 1, start |-> u.start,
                                                 data |-> WordValue(u.bitvals),
                                                 nbits |-> Len(u.bitvals), complete |-> FALSE,
                                                 parity_rec |-> 0, stop_rec |-> 0])]
    ELSE /\ u' = [u EXCEPT !.state = "Done", !.t = EndTime(u.edges), !.bitvals = <<>>]
         /\ UNCHANGED <<status, subrecords>>

\* the first step: the bit period is taken from the baud rate given, or
\* detected from the edges
UartSetup ==
    /\ u.state = "Setup"
    /\ IF u.cfg.baud = "given"
       THEN u' = [u EXCEPT !.state = "Idle", !.bit = BitPeriod]
       ELSE IF EnoughBaudEdges(Len(u.edges))
       THEN u' = [u EXCEPT !.state = "Idle", !.bit = MinSpan(u.edges)]
       ELSE u' = [u EXCEPT !.state = "Raised", !.raised = "AutoBaudError"]
    /\ UNCHANGED <<status, subrecords, exceptUart>>

\* Idle: the next start-bit edge is searched; the output ends when the
\* edge stream holds none
UartIdle ==
    /\ u.state = "Idle"
    /\ LET found == StartEdges(u.edges, u.t, u.cfg)
       IN IF found = {}
          THEN u' = [u EXCEPT !.state = "Done"]
          ELSE u' = [u EXCEPT !.state = "StartBit",
                              !.start = CHOOSE x \in found : \A y \in found : x <= y]
    /\ UNCHANGED <<status, subrecords, exceptUart>>

\* StartBit: the cell after the edge is sampled at its centre
UartStartBit ==
    /\ u.state = "StartBit"
    /\ IF Exhausted(u.edges, SampleInstant(u.start, 0, u.bit))
       THEN UartPartial
       ELSE /\ u' = [u EXCEPT !.state = IF BitAt(u.edges, SampleInstant(u.start, 0, u.bit),
                                                 u.cfg) = 0
                                        THEN "DataBits" ELSE "Idle",
                              !.t = SampleInstant(u.start, 0, u.bit),
                              !.bitvals = <<>>]
            /\ UNCHANGED <<status, subrecords>>
    /\ UNCHANGED exceptUart

\* DataBits: the next data bit is sampled
UartDataBits ==
    /\ u.state = "DataBits"
    /\ LET k == Len(u.bitvals) + 1
           tm == SampleInstant(u.start, k, u.bit)
       IN IF Exhausted(u.edges, tm)
          THEN UartPartial
          ELSE /\ u' = [u EXCEPT !.bitvals = Append(@, BitAt(u.edges, tm, u.cfg)),
                                 !.t = tm,
                                 !.state = IF k < u.cfg.bits THEN "DataBits"
                                           ELSE IF u.cfg.parity = "none" THEN "StopBits"
                                           ELSE "ParityBit"]
               /\ UNCHANGED <<status, subrecords>>
    /\ UNCHANGED exceptUart

\* ParityBit: the parity bit is sampled
UartParityBit ==
    /\ u.state = "ParityBit"
    /\ LET tm == SampleInstant(u.start, u.cfg.bits + 1, u.bit)
       IN IF Exhausted(u.edges, tm)
          THEN UartPartial
          ELSE /\ u' = [u EXCEPT !.par = BitAt(u.edges, tm, u.cfg), !.t = tm,
                                 !.state = "StopBits"]
               /\ UNCHANGED <<status, subrecords>>
    /\ UNCHANGED exceptUart

\* StopBits: the stop bits are sampled and the frame is emitted; the
\* decoder is back in Idle at the end of the frame
UartStopBits ==
    /\ u.state = "StopBits"
    /\ LET first == u.cfg.bits + 1 + HasParity(u.cfg)
           instants == {SampleInstant(u.start, first + j, u.bit) : j \in 0 .. (u.cfg.stop_bits - 1)}
           parity_status == ParityStatus(u.par, ParityOf(u.bitvals, u.cfg.parity))
           stop_status == IF \E tm \in instants : BitAt(u.edges, tm, u.cfg) # 1
                          THEN FramingError ELSE 0
           f == Len(status) + 1
       IN IF \E tm \in instants : Exhausted(u.edges, tm)
          THEN UartPartial
          ELSE /\ EmitRecords(FrameStatus(parity_status),
                              IF u.cfg.parity = "none" THEN <<0, 0, stop_status>>
                              ELSE <<0, 0, parity_status, stop_status>>)
               /\ u' = [u EXCEPT !.state = ResyncState(Max({FrameStatus(parity_status),
                                                                    parity_status, stop_status})),
                                 !.t = u.start + u.bit * (first + u.cfg.stop_bits),
                                 !.bitvals = <<>>,
                                 !.frames = Append(@, [rec |-> f, start |-> u.start,
                                                       data |-> WordValue(u.bitvals),
                                                       nbits |-> Len(u.bitvals),
                                                       complete |-> TRUE,
                                                       parity_rec |-> IF u.cfg.parity = "none"
                                                                      THEN 0 ELSE f + 3,
                                                       stop_rec |-> f + 3 + HasParity(u.cfg)])]
    /\ UNCHANGED exceptUart

\* messages, configurations, and the edge streams decoded: the synthesized
\* stream as it is, with a dropout, or cut short
Messages(n) == UNION {SeqsOfLen(0 .. (Pow2(n) - 1), k) : k \in 0 .. MaxWords}

UartConfigs ==
    [bits : UartBits, parity : UartParities, stop_bits : StopBitCounts, idle : UartIdleLevels,
     baud : {"given", "auto"}]

\* the streams of a message: as synthesized, with a dropout, or cut short
CleanStream(lvls) == {[fault |-> "none", edges |-> EdgesOf(lvls)]}
DropoutStreams(lvls) ==
    {[fault |-> "dropout", edges |-> EdgesOf(held)] :
        held \in {Dropout(lvls, a, n, lvl) :
                    a \in 2 .. Len(lvls), n \in DropoutLengths, lvl \in {0, 1}}}
CutStreams(clean) ==
    {[fault |-> "cut", edges |-> SubSeq(clean, 1, k)] : k \in 1 .. (Len(clean) - 1)}

\* a message with edges enough for the baud rate detection
LongMessage == [i \in 1 .. (MIN_BAUD_EDGES \div 4 + 1) |-> 1]
LongConfigs == {cfg \in UartConfigs : cfg.parity = "none" /\ cfg.stop_bits = 1}

\* the configurations the streams with a fault are decoded with
FaultConfigs == {cfg \in UartConfigs : cfg.idle = 1 /\ cfg.baud = "given"}

UartInit ==
    \E cfg \in UartConfigs :
        \E msg \in Messages(cfg.bits) \cup (IF cfg \in LongConfigs THEN {LongMessage} ELSE {}) :
            \E lvls \in {MessageLevels(msg, cfg)} : \E clean \in {EdgesOf(lvls)} :
                \E str \in CleanStream(lvls)
                            \cup (IF cfg \in FaultConfigs /\ msg # LongMessage
                                  THEN DropoutStreams(lvls) \cup CutStreams(clean)
                                  ELSE {}) :
                    u = [state |-> "Setup", cfg |-> cfg, msg |-> msg, fault |-> str.fault,
                         edges |-> str.edges, bit |-> 0, t |-> 0, start |-> 0,
                         bitvals |-> <<>>, par |-> 0, frames |-> <<>>, raised |-> "none"]

UartSpecInit == UartInit /\ EdgeIdle /\ SigIdle /\ DuoIdle /\ LvIdle /\ StatIdle /\ RecIdle

UartNext ==
    \/ UartSetup
    \/ UartIdle
    \/ UartStartBit
    \/ UartDataBits
    \/ UartParityBit
    \/ UartStopBits

UartSpec == UartSpecInit /\ [][UartNext]_vars

\* the decoder is run whenever it can take a step: it is an iterator that
\* its consumer drains
UartLiveSpec == UartSpec /\ WF_vars(UartNext)

----------------------------------------------------------------------------
(* OnlineStats of ripyl/cython/util/stats.pyx.  The doubles m and s are    *)
(* exact fractions <<numerator, denominator>>; c is far from the end of    *)
(* its int range.  The fields given, via, prior and resets are not of the  *)
(* class: they record what the object was given since its construction or  *)
(* last reset, by which methods, the count the last reset discarded, and   *)
(* the resets so far.                                                      *)

\* __init__
StatsNew == [c |-> 0, m |-> FInt(0), s |-> FInt(0)]

\* (variant: the count is taken one too large)
AccumulateOffByOne(o, d) ==
    LET delta == FSub(FInt(d), o.m)
        m == FAdd(o.m, FDiv(delta, FInt(o.c + 2)))
    IN [c |-> o.c + 1, m |-> m, s |-> FAdd(o.s, FMul(delta, FSub(FInt(d), m)))]

\* accumulate: delta / float(self.c)
Accumulate(o, d) ==
    LET delta == FSub(FInt(d), o.m)
        m == FAdd(o.m, FDiv(delta, FInt(o.c + 1)))
    IN [c |-> o.c + 1, m |-> m, s |-> FAdd(o.s, FMul(delta, FSub(FInt(d), m)))]

\* (variant: the sum of squares is updated with the mean as it was)
AccumulateTurnStaleMean(o, d) ==
    LET delta == FSub(FInt(d), o.m)
        m == FAdd(o.m, FDiv(delta, FInt(o.c + 1)))
    IN [c |-> o.c + 1, m |-> m, s |-> FAdd(o.s, FMul(delta, FSub(FInt(d), o.m)))]

\* accumulate_array: one turn of `for d in data` (delta / self.c, a division
\* of doubles as delta is a double)
AccumulateTurn(o, d) ==
    LET c == o.c + 1
        delta == FSub(FInt(d), o.m)
        m == FAdd(o.m, FDiv(delta, FInt(c)))
    IN [c |-> c, m |-> m, s |-> FAdd(o.s, FMul(delta, FSub(FInt(d), m)))]

\* accumulate_array: for d in data
RECURSIVE AccumulateArray(_, _)
AccumulateArray(o, ds) ==
    IF ds = <<>> THEN o
    ELSE LET n == AccumulateTurn(o, Head(ds))
         IN IF n.c > o.c THEN AccumulateArray(n, Tail(ds)) ELSE n

variance(o, ddof) == IF o.c > 2 THEN FDiv(o.s, FInt(o.c - ddof)) ELSE FInt(0)

\* std: the square root (libc sqrt) is kept as a term over the variance
std(o, ddof) == [sqrt_of |-> variance(o, ddof)]

mean(o) == o.m

\* (variant: the sums are left as they are)
ResetCountOnly(o) == [c |-> 0, m |-> o.m, s |-> o.s]

\* reset: self.__init__()
reset(o) == StatsNew

StatsObject == [c |-> stats.c, m |-> stats.m, s |-> stats.s]

StatsAccumulate(d) ==
    /\ Len(stats.given) < MaxAccumulated
    /\ LET n == Accumulate(StatsObject, d)
       IN stats' = [stats EXCEPT !.c = n.c, !.m = n.m, !.s = n.s,
                                 !.given = Append(@, d),
                                 !.via = @ \cup {"accumulate"}]
    /\ UNCHANGED exceptStat

StatsAccumulateArray(ds) ==
    /\ Len(stats.given) + Len(ds) <= MaxAccumulated
    /\ LET n == AccumulateArray(StatsObject, ds)
       IN stats' = [stats EXCEPT !.c = n.c, !.m = n.m, !.s = n.s,
                                 !.given = @ \o ds,
                                 !.via = @ \cup {"accumulate_array"}]
    /\ UNCHANGED exceptStat

StatsReset ==
    /\ stats.resets < MaxResets
    /\ LET n == reset(StatsObject)
       IN stats' = [stats EXCEPT !.c = n.c, !.m = n.m, !.s = n.s,
                                 !.given = <<>>, !.via = {},
                                 !.prior = stats.c, !.resets = @ + 1]
    /\ UNCHANGED exceptStat

StatsInit ==
    stats = [c |-> StatsNew.c, m |-> StatsNew.m, s |-> StatsNew.s,
             given |-> <<>>, via |-> {}, prior |-> 0, resets |-> 0]

StatsSpecInit ==
    StatsInit /\ EdgeIdle /\ SigIdle /\ DuoIdle /\ LvIdle /\ UartIdleState /\ RecIdle

StatsNext ==
    \/ \E d \in StatValues : StatsAccumulate(d)
    \/ \E k \in 0 .. 2 : \E ds \in SeqsOfLen(StatValues, k) : StatsAccumulateArray(ds)
    \/ StatsReset

StatsSpec == StatsSpecInit /\ [][StatsNext]_vars

----------------------------------------------------------------------------
(* Observations of a run: the timed samples, the yielded edges *)

\* the samples pulled so far, each with the time start_time + index * sample_period
\* of its own chunk
RECURSIVE Timed(_)
Timed(cs) ==
    IF cs = <<>> THEN <<>>
    ELSE LET c == Head(cs)
         IN [i \in 1 .. Len(c.samples) |->
                [time |-> c.start_time + (i - 1) * c.sample_period,
                 sample |-> c.samples[i]]] \o Timed(Tail(cs))

\* the generator has yielded everything the chunks pulled so far give rise to
Quiescent == pc \in {"loop", "done"}

\* the positions of out that `yield e` produced
EdgePositions == (1 .. Len(out)) \ init_yields

\* the same stream delivered as one chunk (when every chunk has the same period)
SamePeriod == \A k \in 1 .. Len(chunks) : chunks[k].sample_period = chunks[1].sample_period
OneChunk == SampleChunk(Concat(chunks), chunks[1].start_time, chunks[1].sample_period)

\* the zone of a sample under the arguments of this call of find_edges
ZoneOf(sample) == CyZone(sample, HystTop(logic, hysteresis), HystBot(logic, hysteresis))
Stable(zone) == zone \in {ZONE_1_L1, ZONE_3_L0}

\* the stable samples before position g of the stream, and the zone of the last
StableBefore(F, g) == {k \in 1 .. (g - 1) : Stable(ZoneOf(F[k].sample))}
LastStableZone(F, g) ==
    ZoneOf(F[CHOOSE k \in StableBefore(F, g) : \A j \in StableBefore(F, g) : j <= k].sample)

\* the edges yielded for the sample at time t
EdgesAt(t) == {i \in EdgePositions : out[i][1] = t}

----------------------------------------------------------------------------
(* C1: chunk-boundary invariance of find_edges.  A stream with one sample  *)
(* period yields, however it is split into non-empty chunks, the element   *)
(* sequence that the same stream yields as one chunk, the initial-state    *)
(* elements included.                                                      *)
C1_ChunkInvariance ==
    (fn = "find_edges" /\ Quiescent /\ chunks # <<>> /\ SamePeriod)
        => out = FindEdgesRun(<<OneChunk>>, logic, hysteresis)

(* C2: once a stable sample has been seen, a sample yields an edge iff its *)
(* zone is stable and differs from the zone of the last stable sample      *)
(* before it; it then yields exactly one, carrying the zone's level        *)
(* (High -> 1, Low -> 0).  A sample in the transition band yields nothing. *)
C2_EdgeRule ==
    (fn = "find_edges" /\ Quiescent) =>
        LET F == Timed(chunks)
        IN \A g \in 1 .. Len(F) :
            StableBefore(F, g) # {} =>
                LET z == ZoneOf(F[g].sample)
                    genuine == Stable(z) /\ z # LastStableZone(F, g)
                IN /\ genuine => Cardinality(EdgesAt(F[g].time)) = 1
                   /\ ~genuine => EdgesAt(F[g].time) = {}
                   /\ \A i \in EdgesAt(F[g].time) :
                        out[i][2] = (IF z = ZONE_1_L1 THEN 1 ELSE 0)

\* a passage X -> band -> Y has yielded its one edge, and an excursion
\* X -> band -> X has yielded none
C2_Witness ==
    /\ fn = "find_edges" /\ pc = "done" /\ hysteresis > 0
    /\ LET F == Timed(chunks)
       IN /\ Len(F) = 3
          /\ Stable(ZoneOf(F[1].sample))
          /\ ZoneOf(F[2].sample) = ZONE_2_T
          /\ Stable(ZoneOf(F[3].sample))
          /\ ZoneOf(F[3].sample) # ZoneOf(F[1].sample)
          /\ EdgesAt(F[3].time) # {}

(* C3: the times of the elements yielded by find_edges and by              *)
(* find_multi_edges strictly increase, the initial-state element included, *)
(* and every element is yielded for a sample of its own.                   *)
C3_Monotonic ==
    LET F == Timed(chunks)
    IN /\ \A i \in 1 .. (Len(out) - 1) : out[i][1] < out[i + 1][1]
       /\ \A i \in 1 .. Len(out) : \E g \in 1 .. Len(F) : out[i][1] = F[g].time
       /\ Len(out) <= Len(F)

C3_Witness == Len(out) = 3 /\ pc = "done" /\ Len(chunks) = 2

(* C4: the initial-state element is yielded exactly once, as the first     *)
(* element and with the first chunk's start_time; every later element is   *)
(* an edge.                                                                *)
C4_InitialOnce ==
    /\ out = <<>> => init_yields = {}
    /\ out # <<>> => init_yields = {1} /\ out[1][1] = chunks[1].start_time

(* C5: every edge of find_edges carries the time start_time + index *      *)
(* sample_period of the sample that triggered it, by the start_time and    *)
(* the sample_period of the chunk that holds that sample.                  *)
C5_EdgeTime ==
    fn = "find_edges" =>
        \A i \in EdgePositions :
            \E k \in 1 .. Len(chunks) : \E j \in 1 .. Len(chunks[k].samples) :
                /\ out[i][1] = chunks[k].start_time + (j - 1) * chunks[k].sample_period
                /\ Stable(ZoneOf(chunks[k].samples[j]))
                /\ out[i][2] = ZoneOf(chunks[k].samples[j]) \div 2

\* an edge at index 1 of a second chunk whose period differs from the first's
C5_Witness ==
    /\ fn = "find_edges" /\ Len(chunks) = 2
    /\ chunks[2].sample_period # chunks[1].sample_period
    /\ Len(chunks[2].samples) = 2
    /\ EdgesAt(chunks[2].start_time + chunks[2].sample_period) # {}

(* C6: for a clean square wave (every sample is exactly the low or the     *)
(* high logic level) find_edges yields the same elements for every         *)
(* hysteresis of 0, 0.1, ..., 0.9.                                         *)
Clean == \A k \in 1 .. Len(chunks) : \A j \in 1 .. Len(chunks[k].samples) :
            chunks[k].samples[j] \in {logic[1], logic[2]}

C6_HysteresisIdempotent ==
    (fn = "find_edges" /\ Quiescent /\ Clean) =>
        \A h \in HystRange : FindEdgesRun(chunks, logic, h) = out

C6_Witness ==
    /\ fn = "find_edges" /\ pc = "done" /\ Clean /\ hysteresis = 9
    /\ Len(out) = 3

(* C7: with hysteresis 0 no sample is in the transition band, the detector *)
(* is never in the transitional state, and after the first sample an edge  *)
(* is yielded exactly at the samples whose side of the midpoint differs    *)
(* from the side of the sample before.                                     *)
HighSide(sample) == 2 * sample > logic[1] + logic[2]

C7_NoHysteresis ==
    (fn = "find_edges" /\ hysteresis = 0) =>
        LET F == Timed(chunks)
        IN /\ state # ZONE_2_T
           /\ \A g \in 1 .. Len(F) : ZoneOf(F[g].sample) # ZONE_2_T
           /\ Quiescent =>
                \A g \in 2 .. Len(F) :
                    (EdgesAt(F[g].time) # {}) <=>
                        (HighSide(F[g].sample) # HighSide(F[g - 1].sample))

\* a sample exactly on the midpoint, and an edge yielded after it
C7_Witness ==
    /\ fn = "find_edges" /\ hysteresis = 0 /\ pc = "done"
    /\ LET F == Timed(chunks)
       IN /\ Len(F) = 3
          /\ 2 * F[2].sample = logic[1] + logic[2]
          /\ EdgesAt(F[2].time) # {}
          /\ EdgesAt(F[3].time) # {}

(* C8: a stream whose samples lie in at most one of the two stable zones   *)
(* (the others in the transition band) makes find_edges yield exactly one  *)
(* element, the initial state, however it is chunked.                      *)
StableZonesSeen == {ZoneOf(Timed(chunks)[g].sample) : g \in 1 .. Consumed} \ {ZONE_2_T}

C8_NoTransitionNoEdge ==
    (fn = "find_edges" /\ Quiescent /\ chunks # <<>> /\ Cardinality(StableZonesSeen) <= 1)
        => Len(out) = 1

(* C9: find_multi_edges with 2N ascending thresholds numbers the zones by  *)
(* the count of thresholds below the sample; only samples of even zones    *)
(* yield edges, and the k-th stable zone (zone 2k) is reported as state    *)
(* k - floor(N/2): -1..1 for N = 2, -2..2 for N = 4, 0..1 for N = 1.       *)
ZoneNumber(sample) == Cardinality({j \in 1 .. Len(hyst_thresholds) : hyst_thresholds[j] < sample})
LevelCount == Len(hyst_thresholds) \div 2

C9_MultiCoding ==
    fn = "find_multi_edges" =>
        LET F == Timed(chunks)
        IN /\ \A i \in EdgePositions : \E g \in 1 .. Len(F) :
                /\ out[i][1] = F[g].time
                /\ ZoneNumber(F[g].sample) % 2 = 0
                /\ out[i][2] = ZoneNumber(F[g].sample) \div 2 - LevelCount \div 2
           /\ \A i \in 1 .. Len(out) :
                out[i][2] \in (0 - LevelCount \div 2) .. (LevelCount - LevelCount \div 2)
           /\ LevelCount = 2 => \A i \in 1 .. Len(out) : out[i][2] \in {-1, 0, 1}
           /\ LevelCount = 4 => \A i \in 1 .. Len(out) : out[i][2] \in -2 .. 2
           /\ LevelCount = 1 => \A i \in 1 .. Len(out) : out[i][2] \in {0, 1}

\* five-level input has yielded an edge to the lowest and one to the highest state
C9_Witness ==
    /\ fn = "find_multi_edges" /\ LevelCount = 4
    /\ \E i \in EdgePositions : out[i][2] = -2
    /\ \E i \in EdgePositions : out[i][2] = 2

(* C10: at every moment nested_status() of a record is the maximum of its  *)
(* own status and the nested_status() of its subrecords as they are now,   *)
(* which is the largest status found in the record and its descendants; so *)
(* it is at least the record's status and at least every subrecord's       *)
(* nested_status().                                                        *)
C10_NestedStatus ==
    \A r \in Records :
        /\ nested_status(r) = Max({status[r]} \cup {nested_status(c) : c \in Children(r)})
        /\ nested_status(r) = Max({status[d] : d \in Descendants(r) \cup {r}})
        /\ nested_status(r) >= status[r]
        /\ \A c \in Children(r) : nested_status(r) >= nested_status(c)

\* an error two levels down, under a record and a subrecord that are Ok
C10_Witness ==
    \E r \in Records : \E c \in Children(r) : \E d \in Children(c) :
        /\ status[r] = 0 /\ status[c] = 0 /\ status[d] = 200
        /\ nested_status(r) = 200

(* C15: edges_to_sample_stream raises StreamError when its edge stream     *)
(* holds fewer than two edges (none or one), and then yields no            *)
(* SampleChunk at all; with two or more edges it does not raise.           *)
C15_TooFewEdges ==
    fn = "edges_to_sample_stream" =>
        /\ Len(edge_src) < 2 =>
            /\ sample_out = <<>>
            /\ pc \in {"created", "raised"}
            /\ pc = "raised" <=> raised = "StreamError"
        /\ Len(edge_src) >= 2 => raised = "none"

\* a stream of one edge: the edge was pulled and StreamError raised
C15_Witness ==
    /\ fn = "edges_to_sample_stream" /\ Len(edge_src) = 1
    /\ pulled = 1 /\ raised = "StreamError" /\ sample_out = <<>>

(* C19: lazy evaluation of find_edges, find_multi_edges,                   *)
(* edges_to_sample_stream and capacify.  A generator that has been created *)
(* and not yet asked for an element has consumed nothing and raised        *)
(* nothing; an input item is consumed, an element yielded or an exception  *)
(* raised only while a next() of the consumer is being served; and an      *)
(* input item is consumed only when every element the input consumed so    *)
(* far gives rise to has been yielded.                                     *)
InputConsumed == Len(chunks) + pulled

\* the samples the edges consumed so far determine: those before the last edge
EsDerivable ==
    IF pulled < 2 THEN 0
    ELSE Cardinality({k \in 0 .. (edge_src[pulled][1] - edge_src[1][1]) :
                        edge_src[1][1] + k * es_args.sample_period < edge_src[pulled][1]})

\* nothing more can be yielded from the input consumed so far
NothingPending ==
    CASE fn = "find_edges" -> out = FindEdgesRun(chunks, logic, hysteresis)
      [] fn = "find_multi_edges" -> out = FindMultiEdgesRun(chunks, hyst_thresholds)
      [] fn = "capacify" -> Len(sample_out) = Len(chunks)
      [] fn = "edges_to_sample_stream" ->
            /\ SumLen(sample_out) + Len(es.chunk) = EsDerivable
            /\ Len(es.chunk) < es_args.chunk_size
      [] OTHER -> TRUE

C19_Lazy ==
    /\ [](pc = "created" => InputConsumed = 0 /\ raised = "none" /\ out = <<>>
                            /\ sample_out = <<>>)
    /\ [][/\ (InputConsumed' # InputConsumed \/ raised' # raised \/ out' # out
                \/ sample_out' # sample_out) => requested
          /\ InputConsumed' # InputConsumed => NothingPending]_vars

\* edges_to_sample_stream has yielded a chunk and, asked for the next one,
\* pulled a third edge
C19_Witness ==
    /\ fn = "edges_to_sample_stream" /\ requested
    /\ pulled = 3 /\ Len(sample_out) >= 1

(* C20: two instances of find_edges, or of find_multi_edges, over          *)
(* different sample streams, pulled in any interleaving, one of them       *)
(* possibly abandoned at any point: an instance run to completion has      *)
(* yielded exactly what it yields when run alone, and a step of one        *)
(* instance leaves the other's state, prev_stable and progress untouched.  *)
C20_Isolation ==
    /\ [](\A i \in Instances : inst[i].pc = "done" => inst[i].out = DuoAlone(i))
    /\ [][\A i \in Instances :
            inst'[i] # inst[i] => inst'[3 - i] = inst[3 - i] /\ cells'[3 - i] = cells[3 - i]]_vars

\* instance 1 was abandoned with an edge found and not yet yielded, and
\* instance 2 went on to completion over a different stream
C20_Witness ==
    /\ inst[1].pc = "abandoned" /\ Len(inst[1].out) = 1 /\ inst[1].edges # <<>>
    /\ inst[2].pc = "done" /\ Len(inst[2].out) = 2
    /\ Concat(inst[2].chunks) # Concat(inst[1].chunks)

(* C17: logic-level detection fails with AutoLevelError when the samples   *)
(* within its budget do not hold two separate levels (a flat line, for     *)
(* one), whatever follows them in the stream; nothing is then handed to    *)
(* the edge detector and no levels are returned.                           *)
FlatWithinBudget ==
    \A i \in 1 .. Len(Concat(lv.src)) : \A j \in 1 .. Len(Concat(lv.src)) :
        (i <= LevelBudget /\ j <= LevelBudget) => Concat(lv.src)[i] = Concat(lv.src)[j]

C17_AutoLevelError ==
    (lv.auto /\ lv.pc # "analyse" /\ FlatWithinBudget) =>
        /\ lv.pc = "raised" /\ lv.raised = "AutoLevelError"
        /\ lv.levels = <<>> /\ lv.down = <<>>

\* a flat line over the budget, with another amplitude after it in the
\* last chunk consumed
C17_Witness ==
    /\ lv.auto /\ lv.raised = "AutoLevelError" /\ FlatWithinBudget
    /\ SumLen(lv.src) > LevelBudget
    /\ Last(Concat(lv.src)) # Concat(lv.src)[1]

(* C18: the edge detector behind logic-level detection is handed the       *)
(* chunks of the sample stream themselves (samples, start_time and         *)
(* sample_period), in order and from the first chunk on: always a prefix   *)
(* of what the source has delivered, and all of it when the stream has     *)
(* ended, as when the levels are given by the caller.                      *)
C18_NoSampleLost ==
    /\ Len(lv.down) <= Len(lv.src)
    /\ \A k \in 1 .. Len(lv.down) : lv.down[k] = lv.src[k]
    /\ lv.pc = "done" => lv.down = lv.src
    /\ lv.pc = "replay" => lv.down \o lv.buffer = lv.src

\* after detection over two chunks, a third chunk followed; all three were
\* handed on
C18_Witness ==
    /\ lv.auto /\ lv.pc = "done"
    /\ Len(lv.src) = 3 /\ lv.down = lv.src

----------------------------------------------------------------------------
(* The UART decoder's view of a frame it emitted, taken again from the     *)
(* edge stream.                                                            *)

SampledData(f, n) == [k \in 1 .. n |-> BitAt(u.edges, SampleInstant(f.start, k, u.bit), u.cfg)]
SampledParity(f) == BitAt(u.edges, SampleInstant(f.start, u.cfg.bits + 1, u.bit), u.cfg)
ParityMismatch(f) ==
    /\ f.parity_rec # 0
    /\ SampledParity(f) # ParityOf(SampledData(f, u.cfg.bits), u.cfg.parity)
FrameInProgress(st) == st \in {"StartBit", "DataBits", "ParityBit", "StopBits"}
OutputEnded == u.state \in {"Done", "Raised"}

(* C11: a message synthesized to an edge stream and decoded with the same  *)
(* configuration, no error induced, gives one frame per word, in order,    *)
(* with the data of the word and a nested_status() of Ok.                  *)
C11_RoundTrip ==
    (u.state = "Done" /\ u.fault = "none") =>
        /\ Len(u.frames) = Len(u.msg)
        /\ \A i \in 1 .. Len(u.frames) :
            /\ u.frames[i].data = u.msg[i]
            /\ u.frames[i].complete
            /\ nested_status(u.frames[i].rec) = 0
        /\ \A i \in 1 .. (Len(u.frames) - 1) : u.frames[i].start < u.frames[i + 1].start

C11_Witness ==
    /\ u.state = "Done" /\ u.fault = "none"
    /\ u.cfg.parity = "odd" /\ u.cfg.stop_bits = 2
    /\ Len(u.msg) = 2 /\ u.msg[1] = 1 /\ u.msg[2] = 2
    /\ Len(u.frames) = 2

(* C12: when the parity bit sampled does not match the parity of the data  *)
(* bits sampled, the parity subrecord has a status of the error tier, the  *)
(* status of the frame itself is left as it is, nested_status() of the     *)
(* frame is of the error tier, and the data of the frame is the data bits  *)
(* sampled.                                                                *)
C12_ParityError ==
    \A i \in 1 .. Len(u.frames) :
        (u.frames[i].complete /\ ParityMismatch(u.frames[i])) =>
            /\ status[u.frames[i].parity_rec] >= STATUS_ERROR
            /\ status[u.frames[i].rec] = 0
            /\ nested_status(u.frames[i].rec) >= STATUS_ERROR
            /\ u.frames[i].data = WordValue(SampledData(u.frames[i], u.cfg.bits))

C12_Witness ==
    /\ u.fault = "dropout"
    /\ \E i \in 1 .. Len(u.frames) :
        /\ u.frames[i].complete /\ ParityMismatch(u.frames[i])
        /\ status[u.frames[i].stop_rec] = 0
        /\ u.frames[i].data = u.msg[i] /\ u.frames[i].data # 0

(* C13: a frame with a framing error or a parity error raises nothing and  *)
(* does not end the output: the decoder is in Idle after it and searches   *)
(* the edges that remain; the output ends only when no start-bit edge is   *)
(* left or the stream ran out within a frame; and every run over a finite  *)
(* edge stream ends.                                                       *)
C13_ErrorRecovery ==
    /\ [](u.raised # "none" => u.cfg.baud = "auto" /\ u.frames = <<>>)
    /\ [](u.state = "Done" =>
            \/ StartEdges(u.edges, u.t, u.cfg) = {}
            \/ (u.frames # <<>> /\ ~Last(u.frames).complete))
    /\ [][(/\ u.state = "StopBits" /\ Len(u'.frames) > Len(u.frames)
           /\ Last(u'.frames).complete
           /\ \E r \in 1 .. Len(status') :
                r = Last(u'.frames).rec /\ nested_status(r)' >= STATUS_ERROR)
          => (u'.state = "Idle" /\ u'.raised = "none")]_vars
    /\ <>OutputEnded

C13_Witness ==
    /\ u.state = "Done"
    /\ Len(u.frames) = 2
    /\ nested_status(u.frames[1].rec) >= STATUS_ERROR
    /\ status[u.frames[1].stop_rec] >= STATUS_ERROR
    /\ u.frames[2].complete /\ nested_status(u.frames[2].rec) = 0

(* C14: the output ends when the edge stream is exhausted, and a frame in  *)
(* progress at that moment is emitted as the last one, with the data bits  *)
(* sampled so far and a status of the error tier.                          *)
C14_Termination ==
    /\ [](u.state = "Done" =>
            \/ StartEdges(u.edges, u.t, u.cfg) = {}
            \/ Exhausted(u.edges, u.t))
    /\ [][(FrameInProgress(u.state) /\ u'.state = "Done") =>
            /\ Len(u'.frames) = Len(u.frames) + 1
            /\ Last(u'.frames).start = u.start
            /\ ~Last(u'.frames).complete
            /\ Last(u'.frames).data = WordValue(u.bitvals)
            /\ status'[Last(u'.frames).rec] >= STATUS_ERROR]_vars
    /\ [](\A i \in 1 .. Len(u.frames) :
            ~u.frames[i].complete =>
                /\ i = Len(u.frames) /\ u.state = "Done"
                /\ u.frames[i].data = WordValue(SampledData(u.frames[i], u.frames[i].nbits))
                /\ \A k \in 1 .. u.cfg.bits :
                    k <= u.frames[i].nbits
                        <=> ~Exhausted(u.edges, SampleInstant(u.frames[i].start, k, u.bit)))

C14_Witness ==
    /\ u.state = "Done" /\ u.fault = "cut"
    /\ Len(u.frames) = 2
    /\ u.frames[1].complete
    /\ ~u.frames[2].complete /\ u.frames[2].nbits = 1 /\ u.frames[2].data = 1
    /\ status[u.frames[2].rec] >= STATUS_ERROR

(* C16: with no baud rate given and fewer edges than the detection asks    *)
(* for, the decoder raises AutoBaudError and emits no record.              *)
C16_AutoBaudError ==
    (u.state # "Setup" /\ u.cfg.baud = "auto" /\ Len(u.edges) < MIN_BAUD_EDGES) =>
        /\ u.state = "Raised"
        /\ u.raised = "AutoBaudError"
        /\ u.frames = <<>>
        /\ status = <<>> /\ subrecords = <<>>

C16_Witness ==
    /\ u.state = "Raised" /\ u.raised = "AutoBaudError"
    /\ u.fault = "none" /\ Len(u.msg) = 2
    /\ Len(u.edges) > 2

----------------------------------------------------------------------------
(* What the statistics of a data set are.                                  *)

RECURSIVE SumOf(_)
SumOf(q) == IF q = <<>> THEN 0 ELSE Head(q) + SumOf(Tail(q))

ArithmeticMean(q) == Frac(SumOf(q), Len(q))

RECURSIVE SumSquares(_, _)
SumSquares(q, mid) ==
    IF q = <<>> THEN FInt(0)
    ELSE FAdd(FMul(FSub(FInt(Head(q)), mid), FSub(FInt(Head(q)), mid)),
              SumSquares(Tail(q), mid))

VarianceOf(q, ddof) == FDiv(SumSquares(q, ArithmeticMean(q)), FInt(Len(q) - ddof))

(* C21: mean() is the arithmetic mean of the values accumulated since the  *)
(* construction or the last reset, whichever of accumulate and             *)
(* accumulate_array gave them, and 0.0 when nothing was accumulated.       *)
C21_Mean ==
    /\ stats.c = Len(stats.given)
    /\ mean(StatsObject) = IF stats.given = <<>> THEN FInt(0)
                           ELSE ArithmeticMean(stats.given)

C21_Witness ==
    /\ stats.via = {"accumulate", "accumulate_array"}
    /\ stats.given = <<2, 0, -1, 0>>
    /\ mean(StatsObject) = <<1, 4>>

(* C22: variance(ddof) is the sum of the squared deviations from the mean  *)
(* divided by N - ddof, for every data set of N >= 1 values and ddof < N,  *)
(* and std(ddof) is the square root of that.                               *)
C22_Variance ==
    \A ddof \in Ddofs :
        (Len(stats.given) >= 1 /\ ddof < Len(stats.given)) =>
            /\ variance(StatsObject, ddof) = VarianceOf(stats.given, ddof)
            /\ std(StatsObject, ddof) = [sqrt_of |-> VarianceOf(stats.given, ddof)]

(* C23: after reset() the object is as a newly constructed one, count 0,   *)
(* mean 0.0, variance 0.0, and what it reports after more accumulations    *)
(* depends on the values accumulated after the reset only.                 *)
C23_Reset ==
    /\ StatsObject = AccumulateArray(StatsNew, stats.given)
    /\ stats.given = <<>> =>
        /\ StatsObject = StatsNew
        /\ stats.c = 0 /\ mean(StatsObject) = FInt(0)
        /\ \A ddof \in Ddofs : /\ variance(StatsObject, ddof) = FInt(0)
                               /\ std(StatsObject, ddof) = [sqrt_of |-> FInt(0)]

C23_Witness ==
    /\ stats.resets = 1 /\ stats.prior = 3
    /\ stats.given = <<2, 2, -1>>
    /\ mean(StatsObject) = FInt(1)
    /\ variance(StatsObject, 1) = FInt(3)

----------------------------------------------------------------------------
(* The samples edges_to_sample_stream has yielded, with their times, and   *)
(* the edge stream they are taken from.                                    *)

ChunkTimed(c) ==
    {<<c.start_time + (i - 1) * c.sample_period, c.samples[i]>> : i \in 1 .. Len(c.samples)}
EmittedSamples == UNION {ChunkTimed(sample_out[k]) : k \in 1 .. Len(sample_out)}

\* the state of the latest edge at or before tm
EdgeInForce(tm) ==
    edge_src[CHOOSE i \in 1 .. Len(edge_src) :
                /\ edge_src[i][1] <= tm
                /\ \A j \in 1 .. Len(edge_src) : edge_src[j][1] <= tm => j <= i][2]

LowestState == MinOf(es_args.logic_states)
HighestState == MaxOf(es_args.logic_states)

(* C24: every sample edges_to_sample_stream yields is                      *)
(* (state - min(logic_states)) / (max(logic_states) - min(logic_states))   *)
(* for the state of the edge in force at the sample's time: 0 for the      *)
(* lowest state, 1 for the highest, within 0 .. 1 for every state.         *)
C24_Scaled ==
    fn = "edges_to_sample_stream" =>
        \A e \in EmittedSamples :
            /\ e[2] = Frac(EdgeInForce(e[1]) - LowestState, HighestState - LowestState)
            /\ EdgeInForce(e[1]) = LowestState => e[2] = FInt(0)
            /\ EdgeInForce(e[1]) = HighestState => e[2] = FInt(1)
            /\ 0 <= e[2][1] /\ e[2][1] <= e[2][2]

\* three logic states: the samples 0, 1/2 and 1 have been yielded
C24_Witness ==
    /\ fn = "edges_to_sample_stream" /\ pc = "done"
    /\ es_args.logic_states = <<-1, 1>>
    /\ {e[2] : e \in EmittedSamples} = {<<0, 1>>, <<1, 2>>, <<1, 1>>}

(* The end of the stream edges_to_sample_stream was given: the last edge,  *)
(* the grid of sample times, which starts at the first edge, and the first *)
(* grid time at or after the last edge.                                    *)
LastEdgeTime == Last(edge_src)[1]
GridTimes(from, before) ==
    {tm \in from .. (before - 1) : (tm - edge_src[1][1]) % es_args.sample_period = 0}
FirstGridTime ==
    CHOOSE tm \in LastEdgeTime .. (LastEdgeTime + es_args.sample_period) :
        /\ (tm - edge_src[1][1]) % es_args.sample_period = 0
        /\ \A x \in LastEdgeTime .. (tm - 1) : (x - edge_src[1][1]) % es_args.sample_period # 0
SamplesFrom(tm) == {e \in EmittedSamples : e[1] >= tm}
Extended ==
    /\ fn = "edges_to_sample_stream" /\ pc = "done"
    /\ Len(edge_src) >= 2 /\ es_args.end_extension # <<>>

(* C25 as stated: with end_extension = E the samples at or after the last  *)
(* edge carry the level of the last edge and their times are the grid      *)
(* times t with last_edge_time <= t < last_edge_time + E.                  *)
C25_EndExtensionFromEdge ==
    Extended =>
        /\ \A e \in SamplesFrom(LastEdgeTime) :
            e[2] = Frac(Last(edge_src)[2] - LowestState, HighestState - LowestState)
        /\ {e[1] : e \in SamplesFrom(LastEdgeTime)}
            = GridTimes(LastEdgeTime, LastEdgeTime + es_args.end_extension[1])

(* C25 amended: with end_extension = E the samples at or after the last    *)
(* edge carry the level of the last edge and their times are the grid      *)
(* times t with t0 <= t < t0 + E, where t0 is the first grid time at or    *)
(* after the last edge (the last edge's time when it is on the grid); with *)
(* no end_extension no sample is at or after the last edge.                *)
C25_EndExtension ==
    /\ Extended =>
        /\ \A e \in SamplesFrom(LastEdgeTime) :
            e[2] = Frac(Last(edge_src)[2] - LowestState, HighestState - LowestState)
        /\ {e[1] : e \in SamplesFrom(LastEdgeTime)}
            = GridTimes(FirstGridTime, FirstGridTime + es_args.end_extension[1])
        /\ Cardinality(SamplesFrom(LastEdgeTime))
            = Cardinality(GridTimes(FirstGridTime, FirstGridTime + es_args.end_extension[1]))
    /\ (fn = "edges_to_sample_stream" /\ Len(edge_src) >= 2 /\ es_args.end_extension = <<>>)
        => SamplesFrom(LastEdgeTime) = {}

\* the last edge is off the grid: the extension of 1 starts at time 2
C25_Witness ==
    /\ Extended
    /\ es_args.sample_period = 2 /\ es_args.end_extension = <<1>>
    /\ edge_src[1][1] = 0 /\ LastEdgeTime = 1
    /\ {e[1] : e \in SamplesFrom(LastEdgeTime)} = {2}

----------------------------------------------------------------------------
(* The level a detector's output stream gives for a time, and the level of *)
(* a stable sample under the arguments of the call.                        *)

StreamLevelAt(tm) ==
    out[CHOOSE i \in 1 .. Len(out) :
            /\ out[i][1] <= tm
            /\ \A j \in 1 .. Len(out) : out[j][1] <= tm => j <= i][2]

IsStableSample(sample) ==
    IF fn = "find_edges" THEN Stable(ZoneOf(sample)) ELSE ZoneNumber(sample) % 2 = 0

LevelOfSample(sample) ==
    IF fn = "find_edges" THEN ZoneOf(sample) \div 2
    ELSE ZoneNumber(sample) \div 2 - Len(hyst_thresholds) \div 4

FirstStable(F) ==
    CHOOSE g \in 1 .. Len(F) :
        /\ Stable(ZoneOf(F[g].sample))
        /\ \A k \in 1 .. (g - 1) : ~Stable(ZoneOf(F[k].sample))

(* C26: the state of the initial-state element of find_edges is the level  *)
(* of the first stable sample of the stream, the state the detector adopts *)
(* when it leaves Start, also when the first samples are in the hysteresis *)
(* band.                                                                   *)
C26_InitialFromStable ==
    (fn = "find_edges" /\ Quiescent /\ state # ES_START) =>
        LET F == Timed(chunks)
        IN /\ out[1][2] = ZoneOf(F[FirstStable(F)].sample) \div 2
           /\ (Len(out) = 1 /\ pc = "done") => out[1][2] = state \div 2

(* C27: every element of the stream of find_edges or find_multi_edges but  *)
(* the first carries a state other than that of the element before it, and *)
(* the level the stream gives for the time of a stable sample is the level *)
(* of that sample's zone.                                                  *)
C27_Alternating ==
    (fn \in {"find_edges", "find_multi_edges"} /\ Quiescent /\ raised = "none") =>
        LET F == Timed(chunks)
        IN /\ \A i \in 2 .. Len(out) : out[i][2] # out[i - 1][2]
           /\ \A g \in 1 .. Len(F) :
                IsStableSample(F[g].sample)
                    => StreamLevelAt(F[g].time) = LevelOfSample(F[g].sample)

----------------------------------------------------------------------------
(* The boundaries of the zones of find_edges, times 20: 20 * midpoint is   *)
(* 10 * (low + high), and hysteresis is in tenths, so 20 * span *          *)
(* hysteresis / 2 is (high - low) * hysteresis.                            *)

Midpoint20 == 10 * (logic[1] + logic[2])
HalfBand20 == (logic[2] - logic[1]) * hysteresis
UpperBoundary20 == Midpoint20 + HalfBand20
LowerBoundary20 == Midpoint20 - HalfBand20
ZoneByBoundaries(sample) ==
    IF 20 * sample > UpperBoundary20 THEN ZONE_1_L1
    ELSE IF 20 * sample <= LowerBoundary20 THEN ZONE_3_L0
    ELSE ZONE_2_T
AllSamples == UNION {{chunks[k].samples[i] : i \in 1 .. Len(chunks[k].samples)} :
                        k \in 1 .. Len(chunks)}

----------------------------------------------------------------------------
(* find_multi_edges over the two thresholds of find_edges.  HystBot and    *)
(* HystTop are the thresholds times 20, so the samples are taken times 20  *)
(* as well: find_multi_edges only compares samples with thresholds and     *)
(* with the sums of two thresholds.                                        *)

TimesTwenty(cs) ==
    [k \in 1 .. Len(cs) |->
        SampleChunk([i \in 1 .. Len(cs[k].samples) |-> 20 * cs[k].samples[i]],
                    cs[k].start_time, cs[k].sample_period)]

DerivedThresholds == <<HystBot(logic, hysteresis), HystTop(logic, hysteresis)>>

IsPrefix(p, q) == Len(p) <= Len(q) /\ p = SubSeq(q, 1, Len(p))

(* C29: find_multi_edges given the thresholds [hyst_bot, hyst_top] of a     *)
(* logic pair and hysteresis yields the elements find_edges yields for the *)
(* same sample stream: the same initial state and the same edges, times    *)
(* and states.                                                             *)
C29_Refinement ==
    fn = "find_edges" =>
        \E multi \in {FindMultiEdgesRun(TimesTwenty(chunks), DerivedThresholds)} :
            /\ IsPrefix(out, multi)
            /\ Quiescent => out = multi

\* two chunks, a sample in the hysteresis band, an initial state and an edge
C29_Witness ==
    /\ fn = "find_edges" /\ pc = "done" /\ hysteresis > 0
    /\ Len(chunks) = 2 /\ Len(out) = 2 /\ init_yields = {1}
    /\ \E g \in 1 .. Len(Timed(chunks)) : ZoneOf(Timed(chunks)[g].sample) = ZONE_2_T
    /\ out = FindMultiEdgesRun(TimesTwenty(chunks), DerivedThresholds)

----------------------------------------------------------------------------
(* C30: find_multi_edges given a threshold list of odd length or of more   *)
(* than 16 entries: the first pull raises AssertionError, no sample chunk  *)
(* is consumed and no element, the initial state included, is yielded.     *)
RejectedThresholds ==
    fn = "find_multi_edges" /\ (Len(hyst_thresholds) % 2 = 1 \/ Len(hyst_thresholds) > 16)

C30_InvalidThresholds ==
    /\ [](RejectedThresholds =>
            /\ chunks = <<>> /\ out = <<>> /\ init_yields = {} /\ edges = <<>>
            /\ state = ES_START
            /\ pc \in {"created", "raised"}
            /\ pc = "raised" <=> raised = "AssertionError")
    /\ []((fn = "find_multi_edges" /\ ~RejectedThresholds) => raised = "none")
    /\ [][(RejectedThresholds /\ pc = "created" /\ requested)
            => (pc' = "raised" /\ raised' = "AssertionError" /\ ~requested')]_vars

\* the list of 18 thresholds, of even length, has been rejected
C30_Witness ==
    /\ fn = "find_multi_edges" /\ Len(hyst_thresholds) = 18
    /\ pc = "raised" /\ raised = "AssertionError"
    /\ chunks = <<>> /\ out = <<>>


----------------------------------------------------------------------------
(* C31: the first element find_multi_edges yields carries the start time   *)
(* of the first chunk and, as state, the number of midpoints of the        *)
(* (lower, upper) threshold pairs that lie strictly below the first sample *)
(* (no hysteresis: a sample inside a band is placed by the band's centre), *)
(* minus the zone offset len(hyst_thresholds) // 4.  With ascending        *)
(* thresholds, a first sample that lies in a stable zone gets the state    *)
(* the edge mapping zone // 2 - offset gives that zone.                    *)
FirstSample == chunks[1].samples[1]
MidpointsBelow(sample) ==
    {i \in 1 .. LevelCount : hyst_thresholds[2 * i - 1] + hyst_thresholds[2 * i] < 2 * sample}
Ascending(ht) == \A i, j \in 1 .. Len(ht) : i <= j => ht[i] <= ht[j]

C31_MultiInitialState ==
    (fn = "find_multi_edges" /\ out # <<>>) =>
        /\ 1 \in init_yields
        /\ out[1] = <<chunks[1].start_time,
                      Cardinality(MidpointsBelow(FirstSample)) - Len(hyst_thresholds) \div 4>>
        /\ (Ascending(hyst_thresholds) /\ ZoneNumber(FirstSample) % 2 = 0) =>
                out[1][2] = ZoneNumber(FirstSample) \div 2 - Len(hyst_thresholds) \div 4

\* a five-level detector whose first sample is in the highest stable zone
C31_Witness ==
    /\ fn = "find_multi_edges" /\ LevelCount = 4 /\ out # <<>>
    /\ ZoneNumber(FirstSample) = 8
    /\ out[1][2] = 2


----------------------------------------------------------------------------
(* The samples edges_to_sample_stream has yielded, as one sequence, and    *)
(* the scaled state of the edge in force at a time.                        *)
YieldedSamples == Concat(sample_out)
FirstEdgeTime == edge_src[1][1]
HeldLevel(tm) == Frac(EdgeInForce(tm) - LowestState, HighestState - LowestState)
SamplesBefore(j) == SumLen(SubSeq(sample_out, 1, j - 1))

(* C32: the k-th sample edges_to_sample_stream emits (k = 0, 1, ...) is at *)
(* time t0 + k * sample_period, t0 being the time of the first edge, and   *)
(* its value is the scaled state of the latest edge whose time is at or    *)
(* before that time; edge times may repeat and edges may lie closer than a *)
(* sample period.                                                          *)
C32_SampleAndHold ==
    fn = "edges_to_sample_stream" =>
        \A j \in 1 .. Len(sample_out) : \A i \in 1 .. Len(sample_out[j].samples) :
            LET k == SamplesBefore(j) + i - 1
                tm == FirstEdgeTime + k * es_args.sample_period
            IN /\ sample_out[j].start_time + (i - 1) * sample_out[j].sample_period = tm
               /\ sample_out[j].samples[i] = HeldLevel(tm)

\* two edges one time unit after the first and at one time, of different
\* states, with a sample period of 2: the sample after them holds the later
C32_Witness ==
    /\ fn = "edges_to_sample_stream" /\ pc = "done"
    /\ Len(edge_src) = 3 /\ es_args.sample_period = 2
    /\ edge_src[2][1] = FirstEdgeTime + 1 /\ edge_src[3][1] = edge_src[2][1]
    /\ edge_src[2][2] # edge_src[3][2] /\ edge_src[1][2] # edge_src[3][2]
    /\ Len(YieldedSamples) >= 2
    /\ YieldedSamples[2] = CurLevel(edge_src[3][2], es_args.logic_states)

(* C33: every chunk edges_to_sample_stream yields is non-empty and carries *)
(* the given sample_period; every chunk but the last of the stream holds   *)
(* exactly chunk_size samples; the first chunk starts at the first edge's  *)
(* time and each later one at the start_time of the chunk before it plus   *)
(* that chunk's sample count times sample_period.                          *)
C33_ChunkStructure ==
    fn = "edges_to_sample_stream" =>
        /\ \A j \in 1 .. Len(sample_out) :
            /\ Len(sample_out[j].samples) >= 1
            /\ Len(sample_out[j].samples) <= es_args.chunk_size
            /\ sample_out[j].sample_period = es_args.sample_period
            /\ j < Len(sample_out) => Len(sample_out[j].samples) = es_args.chunk_size
            /\ Len(sample_out[j].samples) < es_args.chunk_size
                => j = Len(sample_out) /\ pc \in {"tail", "done"}
            /\ j > 1 => /\ sample_out[j].start_time
                            = sample_out[j - 1].start_time
                              + Len(sample_out[j - 1].samples) * es_args.sample_period
                        /\ sample_out[j].start_time > sample_out[j - 1].start_time
        /\ sample_out # <<>> => sample_out[1].start_time = FirstEdgeTime

\* two full chunks of two samples and a last one of one sample
C33_Witness ==
    /\ fn = "edges_to_sample_stream" /\ pc = "done"
    /\ es_args.chunk_size = 2 /\ Len(sample_out) = 3
    /\ Len(sample_out[3].samples) = 1
    /\ sample_out[3].start_time = FirstEdgeTime + 4 * es_args.sample_period

(* C34: given at least two edges, edges_to_sample_stream iterated to its   *)
(* end terminates; with end_extension = None the samples it has emitted    *)
(* are exactly those at the times t0 + k * sample_period strictly below    *)
(* the time of the final edge, one each, and none of them takes the state  *)
(* of the final edge: each holds the state of an edge before it.           *)
C34_Termination ==
    /\ (fn = "edges_to_sample_stream" /\ Len(edge_src) >= 2) ~> (pc = "done")
    /\ []((fn = "edges_to_sample_stream" /\ pc = "done" /\ es_args.end_extension = <<>>) =>
            /\ {e[1] : e \in EmittedSamples} = GridTimes(FirstEdgeTime, LastEdgeTime)
            /\ Len(YieldedSamples) = Cardinality(GridTimes(FirstEdgeTime, LastEdgeTime))
            /\ \A e \in EmittedSamples :
                \E n \in 1 .. (Len(edge_src) - 1) :
                    /\ edge_src[n][1] <= e[1] /\ e[1] < edge_src[n + 1][1]
                    /\ e[2] = CurLevel(edge_src[n][2], es_args.logic_states))

\* no end_extension, a final edge on the sample grid and of a state no other
\* edge has: the stream ends one sample before it
C34_Witness ==
    /\ fn = "edges_to_sample_stream" /\ pc = "done" /\ es_args.end_extension = <<>>
    /\ Len(edge_src) = 3
    /\ (LastEdgeTime - FirstEdgeTime) % es_args.sample_period = 0
    /\ Len(YieldedSamples) = (LastEdgeTime - FirstEdgeTime) \div es_args.sample_period
    /\ Len(YieldedSamples) >= 2
    /\ \A n \in 1 .. 2 : edge_src[n][2] # edge_src[3][2]


----------------------------------------------------------------------------
(* The edge stream given to edges_to_sample_stream as a binary stream of   *)
(* alternating states whose times increase along the sample grid, and the  *)
(* chunks it has yielded as find_edges reads them (the samples of a binary *)
(* stream are the whole numbers 0 and 1).                                  *)
Alternating == \A n \in 1 .. (Len(edge_src) - 1) : edge_src[n + 1][2] # edge_src[n][2]
OnGrid ==
    \A n \in 1 .. Len(edge_src) : (edge_src[n][1] - FirstEdgeTime) % es_args.sample_period = 0
Increasing == \A n \in 1 .. (Len(edge_src) - 1) : edge_src[n][1] < edge_src[n + 1][1]
WholeSamples(c) ==
    [c EXCEPT !.samples = [i \in 1 .. Len(c.samples) |-> c.samples[i][1] \div c.samples[i][2]]]
YieldedChunks == [j \in 1 .. Len(sample_out) |-> WholeSamples(sample_out[j])]
RoundTripInput ==
    /\ fn = "edges_to_sample_stream" /\ pc = "done"
    /\ es_args.logic_states = <<0, 1>>
    /\ Len(edge_src) >= 2 /\ Alternating /\ OnGrid /\ Increasing
    /\ es_args.end_extension # <<>>
    /\ es_args.end_extension[1] >= es_args.sample_period

(* C35: a binary edge stream of alternating states whose times lie on the  *)
(* sample grid, converted by edges_to_sample_stream with an end_extension  *)
(* of at least one sample period (whatever the chunk_size) and given to    *)
(* find_edges with logic (0, 1) and a hysteresis of 0 to 0.9, comes back   *)
(* as the same sequence of (time, state) pairs.                            *)
C35_RoundTrip ==
    RoundTripInput =>
        /\ \A j \in 1 .. Len(sample_out) : \A i \in 1 .. Len(sample_out[j].samples) :
                sample_out[j].samples[i][2] = 1
        /\ \A hyst \in HystRange : FindEdgesRun(YieldedChunks, <<0, 1>>, hyst) = edge_src

\* three edges starting high, two sample periods apart, in chunks of two
C35_Witness ==
    /\ RoundTripInput
    /\ Len(edge_src) = 3 /\ edge_src[1][2] = 1
    /\ es_args.sample_period = 2 /\ es_args.chunk_size = 2
    /\ edge_src[2][1] = FirstEdgeTime + 2 /\ edge_src[3][1] = FirstEdgeTime + 4
    /\ FindEdgesRun(YieldedChunks, <<0, 1>>, 9) = edge_src


----------------------------------------------------------------------------
(* capacify over the samples of the chunks pulled so far given as a single *)
(* chunk: the capacitor is set from the first sample and the filter runs   *)
(* through all of them.                                                    *)
FilteredWhole ==
    CapacifyChunk(Concat(chunks), 1, Frac(chunks[1].sample_period, cap_args.iterations),
                  [a |-> CapacifyInitial(chunks[1]), filt |-> <<>>])

(* C36: capacify sets the capacitor voltage and charge from the first      *)
(* sample of the stream and nowhere else, each later chunk starting from   *)
(* the state the chunk before it left: the filtered samples are those of   *)
(* the same samples given as one chunk, and the state after the last chunk *)
(* is the state that run ends in.                                          *)
C36_ChunkInvariance ==
    (fn = "capacify" /\ chunks # <<>> /\ SamePeriod) =>
        /\ Concat(sample_out) = FilteredWhole.filt
        /\ cap.vc = FilteredWhole.a.vc
        /\ cap.q = FilteredWhole.a.q

(* C37: capacify has yielded one chunk for each chunk it has pulled, in    *)
(* the order pulled, with the start_time, the sample_period and the number *)
(* of samples of that chunk; the samples of the input chunk are what they  *)
(* were, and a chunk once yielded is not written again.                    *)
C37_StructurePreserved ==
    /\ [](fn = "capacify" =>
            /\ Len(sample_out) = Len(chunks)
            /\ \A j \in 1 .. Len(chunks) :
                /\ sample_out[j].start_time = chunks[j].start_time
                /\ sample_out[j].sample_period = chunks[j].sample_period
                /\ Len(sample_out[j].samples) = Len(chunks[j].samples)
            /\ chunks # <<>> => cap.chunk = Doubles(Last(chunks).samples))
    /\ [][fn = "capacify" =>
            /\ Len(sample_out') \in {Len(sample_out), Len(sample_out) + 1}
            /\ \A j \in 1 .. Len(sample_out) : sample_out'[j] = sample_out[j]]_vars

\* two chunks pulled, the second of two samples which the filter changes
C37_Witness ==
    /\ fn = "capacify" /\ Len(chunks) = 2 /\ Len(sample_out) = 2
    /\ Len(chunks[2].samples) = 2
    /\ sample_out[2].samples # Doubles(chunks[2].samples)
    /\ cap.chunk = Doubles(chunks[2].samples)


----------------------------------------------------------------------------
(* accumulate(x) called for each x of xs in order, on an object o          *)
RECURSIVE EachAccumulated(_, _)
EachAccumulated(o, xs) ==
    IF xs = <<>> THEN o
    ELSE LET n == Accumulate(o, Head(xs))
         IN IF n.c > o.c THEN EachAccumulated(n, Tail(xs)) ELSE n

\* the values a step has added to those given
GivenByStep == SubSeq(stats'.given, Len(stats.given) + 1, Len(stats'.given))

(* C38: accumulate_array(xs) leaves the object as accumulate(x) for each x *)
(* of xs in order leaves it, from whatever state it is called in: the same *)
(* count, mean and sum of squared deviations, and so the same mean(),      *)
(* variance(ddof) and std(ddof); accumulate_array([]) changes nothing.     *)
C38_ArrayEquivalence ==
    [][stats'.resets = stats.resets =>
        LET each == EachAccumulated(StatsObject, GivenByStep)
        IN /\ StatsObject' = each
           /\ mean(StatsObject') = mean(each)
           /\ \A ddof \in Ddofs :
                /\ variance(StatsObject', ddof) = variance(each, ddof)
                /\ std(StatsObject', ddof) = std(each, ddof)
           /\ GivenByStep = <<>> => StatsObject' = StatsObject]_vars

\* values given one by one and as lists: a mean of 1/4 and a sum of squared
\* deviations that is not 0
C38_Witness ==
    /\ stats.via = {"accumulate", "accumulate_array"}
    /\ stats.c = 4 /\ stats.m = <<1, 4>> /\ stats.s # FInt(0)
    /\ StatsObject = EachAccumulated(StatsNew, stats.given)

=============================================================================
